---------------------------- MODULE Spec2Model ----------------------------
(***************************************************************************)
(* A model of src/src/shortpe.h (delly): the paired-end / split-read scan  *)
(* scanPEandSR and the split-read assembly assembleSplitReads.             *)
(*                                                                         *)
(* Five specifications share the module, one per part of the code:         *)
(*   SpecCigar  the CIGAR loop of scanPEandSR on one read (lines 275-307)  *)
(*   SpecScan   scanPEandSR, one sample, a wide choice of reads            *)
(*   SpecPar    scanPEandSR, several samples in parallel, few reads        *)
(*   SpecTrack  the rebuild of srStore (lines 427-436)                     *)
(*   SpecAsm    assembleSplitReads (lines 70-192)                          *)
(* Each specification parks the variables of the other parts.              *)
(***************************************************************************)
EXTENDS Integers, Sequences, FiniteSets, TLC

VARIABLES
    c,          \* the configuration (TConfig const& c)
    rec,        \* CIGAR loop: the read being parsed (bam1_t* rec)
    i,          \* CIGAR loop: index of the next operation (0-based, as in the code)
    rp,         \* CIGAR loop: reference pointer
    sp,         \* CIGAR loop: sequence pointer
    junctions,  \* CIGAR loop: readBp[seed], the junctions of this read
    srBR,       \* split-read records per svt (TSvtSRBamRecord srBR)
    srStore,    \* per reference, (pos, read id) -> svid (TSRStore& srStore)
    trkSvt,     \* srStore rebuild: the outer loop variable svt (line 428)
    trkI,       \* srStore rebuild: the inner loop variable i (line 429)
    sampleLib,  \* per sample: median, mad, maxNormalISize, maxISizeCutoff, rs, abnormal_pairs
    validRegions, \* per reference, the valid intervals
    pc,         \* per worker (one per sample, line 228-229): where it is
    refIndex,   \* per worker: the reference partition (line 244)
    vRIt,       \* per worker: index of the valid-region interval (line 263)
    matetra,    \* per worker: matetra[file_c], the inter-chromosomal mate map
    mateMap,    \* per worker: the intra-chromosomal mate map (line 260)
    readBp,     \* the junction maps, seed -> junction vector (line 241)
    lastAlignedPos,      \* per worker (line 266)
    lastAlignedPosReads, \* per worker (line 267)
    pending,    \* per worker: svt, rec, pairQuality, alenmate on the way to line 364
                \* (and nth: the place of rec in the worker's stream)
    bamRecord,  \* pair evidence per svt (TSvtBamRecord bamRecord), shared
    crit,       \* the names of the omp critical sections some thread is inside
    seen,       \* per worker: the records its stream has delivered so far
    svs,        \* assembly: the SV records (std::vector<TStructuralVariantRecord>& svs)
    files,      \* assembly: what each file of c.files holds
    seqStore,   \* assembly: per SV, the sequences gathered (line 118)
    svDone,     \* assembly: per SV, the done flag (line 119)
    asmPc,      \* assembly: where the routine is
    asmRef,     \* assembly: the loop variable refIndex (line 102)
    file_c,     \* assembly: the loop variable file_c (line 122)
    asmIv,      \* assembly: index of the valid-region interval vRIt (line 124)
    asmK,       \* assembly: records the current iterator has delivered
    svidIt,     \* assembly: the loop variable svid of line 161
    msaCalls,   \* assembly: per SV, calls of msa so far
    alignCalls, \* assembly: per SV, the return values of alignConsensus so far
    phase,      \* scanPEandSR after the parallel loop: the part the thread is in
    clSvt,      \* clustering: the loop variable svt (lines 397, 414)
    srSVs,      \* the SVs of the split-read clusters (srSVs)
    clusterLog  \* the calls of cluster so far, <<kind, svt>>, in call order

cigarVars == <<rec, i, rp, sp, junctions>>

trackVars == <<srBR, srStore, trkSvt, trkI>>

scanVars == <<sampleLib, validRegions, pc, refIndex, vRIt, matetra, mateMap,
              readBp, lastAlignedPos, lastAlignedPosReads, pending, bamRecord,
              crit, seen>>

asmVars == <<svs, files, seqStore, svDone, asmPc, asmRef, file_c, asmIv, asmK,
             svidIt, msaCalls, alignCalls>>

orchVars == <<phase, clSvt, srSVs, clusterLog>>

vars == <<c, cigarVars, trackVars, scanVars, asmVars, orchVars>>

\* the variables of clustering while another part runs
OrchIdle == clSvt = 0 /\ srSVs = <<>> /\ clusterLog = <<>>

\* the variables of the assembly while another part runs
AsmIdle ==
    /\ svs = <<>> /\ files = <<>> /\ seqStore = <<>> /\ svDone = <<>>
    /\ asmPc = "idle" /\ asmRef = 0 /\ file_c = 0 /\ asmIv = 0 /\ asmK = 0
    /\ svidIt = 0 /\ msaCalls = <<>> /\ alignCalls = <<>>

Min(a, b) == IF a < b THEN a ELSE b

Max(a, b) == IF a < b THEN b ELSE a

Abs(a) == IF a < 0 THEN -a ELSE a

(***************************************************************************)
(* Bounds of the model.                                                    *)
(***************************************************************************)
\* longest CIGAR explored by SpecCigar
MaxCigar == 3

\* the operation lengths explored: one below, at and one above the thresholds
OpLens == {1, 2, 3}

\* M = EQ X D I S H N are the operations the code names; P (padding) and B
\* (back) are the ones it does not
OpKinds == {"M", "X", "D", "I", "S", "H", "N", "P"}

CigarOps == [op : OpKinds, len : OpLens]

(***************************************************************************)
(* Junction extraction: the CIGAR loop, lines 275-307.                     *)
(***************************************************************************)
\* junction.h, Junction and _insertJunction: append one junction to the
\* read's vector
insertJunction(bp, r, rpos, spos, scl) ==
    Append(bp, [forward |-> "REVERSE" \notin r.flag, scleft |-> scl,
                refidx |-> r.tid, refpos |-> rpos, seqpos |-> spos])

\* line 288, 290: bam_cigar_oplen(cigar[i]) > c.minRefSep
DelQualifies(len, cfg) == len > cfg.minRefSep

\* line 301: bam_cigar_oplen(cigar[i]) > c.minClip
ClipQualifies(len, cfg) == len > cfg.minClip

\* lines 281-306 as if the else branch of line 303 took the operation for a
\* match
CigarOpUnknownAsMatch(st, e, r, cfg) ==
    IF e.op = "D"
    THEN LET b1 == IF DelQualifies(e.len, cfg)
                   THEN insertJunction(st.bp, r, st.rp, st.sp, FALSE) ELSE st.bp
             nrp == st.rp + e.len
             b2 == IF DelQualifies(e.len, cfg)
                   THEN insertJunction(b1, r, nrp, st.sp, TRUE) ELSE b1
         IN  [rp |-> nrp, sp |-> st.sp, bp |-> b2]
    ELSE IF e.op = "I"
    THEN [st EXCEPT !.sp = @ + e.len]
    ELSE IF e.op \in {"S", "H"}
    THEN LET finalsp == IF st.sp = 0 THEN st.sp + e.len ELSE st.sp
             scleft == (st.sp = 0)
         IN  [rp |-> st.rp, sp |-> st.sp + e.len,
              bp |-> IF ClipQualifies(e.len, cfg)
                     THEN insertJunction(st.bp, r, st.rp, finalsp, scleft)
                     ELSE st.bp]
    ELSE IF e.op = "N"
    THEN [st EXCEPT !.rp = @ + e.len]
    ELSE [st EXCEPT !.rp = @ + e.len, !.sp = @ + e.len]

\* lines 281-306 without the special case of the leading clip (lines
\* 296-299)
CigarOpNoLeadingClip(st, e, r, cfg) ==
    IF e.op \in {"M", "EQ", "X"}
    THEN [st EXCEPT !.rp = @ + e.len, !.sp = @ + e.len]
    ELSE IF e.op = "D"
    THEN LET b1 == IF DelQualifies(e.len, cfg)
                   THEN insertJunction(st.bp, r, st.rp, st.sp, FALSE) ELSE st.bp
             nrp == st.rp + e.len
             b2 == IF DelQualifies(e.len, cfg)
                   THEN insertJunction(b1, r, nrp, st.sp, TRUE) ELSE b1
         IN  [rp |-> nrp, sp |-> st.sp, bp |-> b2]
    ELSE IF e.op = "I"
    THEN [st EXCEPT !.sp = @ + e.len]
    ELSE IF e.op \in {"S", "H"}
    THEN [rp |-> st.rp, sp |-> st.sp + e.len,
          bp |-> IF ClipQualifies(e.len, cfg)
                 THEN insertJunction(st.bp, r, st.rp, st.sp, FALSE)
                 ELSE st.bp]
    ELSE IF e.op = "N"
    THEN [st EXCEPT !.rp = @ + e.len]
    ELSE st

\* lines 281-306: one iteration of the loop on operation e; st = [rp, sp, bp]
CigarOp(st, e, r, cfg) ==
    IF e.op \in {"M", "EQ", "X"}
    THEN [st EXCEPT !.rp = @ + e.len, !.sp = @ + e.len]
    ELSE IF e.op = "D"
    THEN LET b1 == IF DelQualifies(e.len, cfg)
                   THEN insertJunction(st.bp, r, st.rp, st.sp, FALSE) ELSE st.bp
             nrp == st.rp + e.len
             b2 == IF DelQualifies(e.len, cfg)
                   THEN insertJunction(b1, r, nrp, st.sp, TRUE) ELSE b1
         IN  [rp |-> nrp, sp |-> st.sp, bp |-> b2]
    ELSE IF e.op = "I"
    THEN [st EXCEPT !.sp = @ + e.len]
    ELSE IF e.op \in {"S", "H"}
    THEN LET finalsp == IF st.sp = 0 THEN st.sp + e.len ELSE st.sp
             scleft == (st.sp = 0)
         IN  [rp |-> st.rp, sp |-> st.sp + e.len,
              bp |-> IF ClipQualifies(e.len, cfg)
                     THEN insertJunction(st.bp, r, st.rp, finalsp, scleft)
                     ELSE st.bp]
    ELSE IF e.op = "N"
    THEN [st EXCEPT !.rp = @ + e.len]
    ELSE st

\* the operation the loop is at
CurOp == rec.cigar[i + 1]

\* line 280: the loop is still running
InLoop == i < Len(rec.cigar)

\* one iteration, whatever the operation
StepOp ==
    LET st == CigarOp([rp |-> rp, sp |-> sp, bp |-> junctions], CurOp, rec, c)
    IN  /\ rp' = st.rp
        /\ sp' = st.sp
        /\ junctions' = st.bp
        /\ i' = i + 1
        /\ UNCHANGED <<c, asmVars, orchVars, rec, trackVars, scanVars>>

\* line 281
OpMatch == InLoop /\ CurOp.op \in {"M", "EQ", "X"} /\ StepOp

\* line 287
OpDel == InLoop /\ CurOp.op = "D" /\ StepOp

\* line 291
OpIns == InLoop /\ CurOp.op = "I" /\ StepOp

\* line 293
OpClip == InLoop /\ CurOp.op \in {"S", "H"} /\ StepOp

\* line 302
OpRefSkip == InLoop /\ CurOp.op = "N" /\ StepOp

\* line 304
OpUnknown ==
    /\ InLoop
    /\ CurOp.op \notin {"M", "EQ", "X", "D", "I", "S", "H", "N"}
    /\ StepOp

\* all CIGARs of 1..n operations
CigarsUpTo(n) == UNION {[1..k -> CigarOps] : k \in 1..n}

\* the configurations of SpecCigar: both thresholds inside the lengths explored
CigarConfigs ==
    [minMapQual : {1}, minTraQual : {1}, minRefSep : {2}, minClip : {2},
     svtcmd : {FALSE}, svtset : {{}}]

\* a read that differs from the others by its CIGAR alone
CigarRead(cg) ==
    [qname |-> "r1", flag |-> {}, qual |-> 1, tid |-> 0, pos |-> 10,
     mtid |-> 0, mpos |-> 10, isize |-> 0, cigar |-> cg]

\* the variables of the srStore rebuild while another part runs
TrackIdle == srBR = <<>> /\ srStore = <<>> /\ trkSvt = 0 /\ trkI = 0

\* the variables of the scan while another part runs
ScanIdle ==
    /\ sampleLib = <<>> /\ validRegions = <<>> /\ pc = <<>> /\ refIndex = <<>>
    /\ vRIt = <<>> /\ matetra = <<>> /\ mateMap = <<>> /\ readBp = <<>>
    /\ lastAlignedPos = <<>> /\ lastAlignedPosReads = <<>> /\ pending = <<>>
    /\ bamRecord = <<>> /\ crit = {} /\ seen = <<>>

\* lines 275-276: rp = rec->core.pos, sp = 0, before the first operation
InitCigar ==
    /\ TrackIdle
    /\ AsmIdle
    /\ OrchIdle /\ phase = "idle"
    /\ ScanIdle
    /\ c \in CigarConfigs
    /\ \E cg \in CigarsUpTo(MaxCigar) : rec = CigarRead(cg)
    /\ i = 0
    /\ rp = rec.pos
    /\ sp = 0
    /\ junctions = <<>>

NextCigar == OpMatch \/ OpDel \/ OpIns \/ OpClip \/ OpRefSkip \/ OpUnknown

SpecCigar == InitCigar /\ [][NextCigar]_vars

(***************************************************************************)
(* Claims on the CIGAR loop.                                               *)
(***************************************************************************)
\* C2: a deletion-from-reference whose length is exactly minRefSep emits its
\* two bracketing junctions (one at the reference pointer before the gap
\* with scleft false, one after it with scleft true), and a deletion of
\* length minRefSep - 1 emits none.
C2_DeletionAtMinRefSepEmits ==
    [][(InLoop /\ CurOp.op = "D") =>
         /\ (CurOp.len = c.minRefSep =>
               /\ Len(junctions') = Len(junctions) + 2
               /\ SubSeq(junctions', 1, Len(junctions)) = junctions
               /\ junctions'[Len(junctions) + 1].refpos = rp
               /\ junctions'[Len(junctions) + 1].scleft = FALSE
               /\ junctions'[Len(junctions) + 2].refpos = rp + CurOp.len
               /\ junctions'[Len(junctions) + 2].scleft = TRUE)
         /\ (CurOp.len = c.minRefSep - 1 => junctions' = junctions)]_vars

\* C3: a soft-clip or hard-clip whose length is exactly minClip emits one
\* junction, and a clip of length minClip - 1 emits none.
C3_ClipAtMinClipEmits ==
    [][(InLoop /\ CurOp.op \in {"S", "H"}) =>
         /\ (CurOp.len = c.minClip => Len(junctions') = Len(junctions) + 1)
         /\ (CurOp.len = c.minClip - 1 => junctions' = junctions)]_vars

(***************************************************************************)
(* The rebuild of srStore, lines 427-436.                                  *)
(***************************************************************************)
\* tags.h: the translocation base; svt 0..4 are intra-chromosomal
DELLY_SVT_TRANS == 5

\* number of reference sequences (hdr->n_targets)
NumRefs == 2

\* most split-read records in srBR when the rebuild starts
MaxSR == 3

Refs == 0 .. (NumRefs - 1)

Svts == 0 .. (2 * DELLY_SVT_TRANS - 1)

\* util.h, _translocation(svt)
translocationSvt(svt) == svt >= DELLY_SVT_TRANS

\* a map with key k set to v (operator[] followed by assignment)
MapPut(mp, k, v) == [x \in (DOMAIN mp) \cup {k} |-> IF x = k THEN v ELSE mp[x]]

\* the variables of the CIGAR loop while another part runs
CigarIdle == rec = <<>> /\ i = 0 /\ rp = 0 /\ sp = 0 /\ junctions = <<>>

\* the split-read records clustering may leave behind: deletions (svt 2) on
\* reference 0 with pos < pos2, translocations (svt 5) between references 1
\* and 0, each unassigned (svid -1) or assigned to SV 0 or 1
TrackRecords ==
    {r \in [chr : {0, 1}, pos : {1, 2, 3}, chr2 : {0}, pos2 : {1, 2, 3},
            id : {1, 2}, svt : {2, DELLY_SVT_TRANS}, svid : {-1, 0, 1}] :
        IF translocationSvt(r.svt)
        THEN r.chr = 1 /\ r.pos \in {1, 2} /\ r.pos2 = 1
        ELSE r.chr = 0 /\ r.pos < r.pos2}

\* junction.h, SortSRBamRecord: the order the vectors are sorted in (line 403)
SRLess(a, b) ==
    LET ka == <<a.chr, a.pos, a.chr2, a.pos2, a.id, a.svid>>
        kb == <<b.chr, b.pos, b.chr2, b.pos2, b.id, b.svid>>
    IN  \E k \in 1..6 : ka[k] < kb[k] /\ \A j \in 1..(k - 1) : ka[j] = kb[j]

RECURSIVE SortedSR(_)
\* the records of S as a sorted vector
SortedSR(S) ==
    IF S = {} THEN <<>>
    ELSE LET mn == CHOOSE x \in S : \A y \in S \ {x} : SRLess(x, y)
         IN  <<mn>> \o SortedSR(S \ {mn})

\* cluster.h: one SV holds records of one svt only, and records of one svt
\* whose two endpoints agree are in one connected component, so they carry
\* the same svid
ClusterConsistent(S) ==
    \A a \in S : \A b \in S :
        /\ (a.svid # -1 /\ a.svid = b.svid) => a.svt = b.svt
        /\ (a.svt = b.svt /\ a.chr = b.chr /\ a.pos = b.pos
              /\ a.chr2 = b.chr2 /\ a.pos2 = b.pos2) => a.svid = b.svid

\* the sets of at most n records
SubsetsUpTo(D, n) == {S \in SUBSET D : Cardinality(S) <= n}

RECURSIVE SetsUpTo(_, _)
\* the same, built up without enumerating SUBSET D
SetsUpTo(D, n) ==
    IF n = 0 THEN {{}}
    ELSE LET prev == SetsUpTo(D, n - 1)
         IN  prev \cup {S \cup {x} : S \in prev, x \in D}

\* state at line 427: clustering is over, srStore is still empty
InitTrack ==
    /\ CigarIdle
    /\ AsmIdle
    /\ OrchIdle /\ phase = "track"
    /\ ScanIdle
    /\ c \in CigarConfigs
    /\ \E S \in SetsUpTo(TrackRecords, MaxSR) :
         /\ ClusterConsistent(S)
         /\ srBR = [svt \in Svts |-> SortedSR({r \in S : r.svt = svt})]
    /\ srStore = [r \in Refs |-> <<>>]
    /\ trkSvt = 0
    /\ trkI = 0

\* the record the inner loop is at
TrkRec == srBR[trkSvt][trkI + 1]

\* lines 432-433: both endpoints of one record are written
TrackWrite(st, r) ==
    LET s1 == [st EXCEPT ![r.chr] = MapPut(@, <<r.pos, r.id>>, r.svid)]
    IN  [s1 EXCEPT ![r.chr2] = MapPut(@, <<r.pos2, r.id>>, r.svid)]

\* lines 429-434, a record with an svid
TrackAssigned ==
    /\ phase = "track"
    /\ trkSvt < 2 * DELLY_SVT_TRANS /\ trkI < Len(srBR[trkSvt])
    /\ TrkRec.svid # -1
    /\ srStore' = TrackWrite(srStore, TrkRec)
    /\ trkI' = trkI + 1
    /\ UNCHANGED <<c, asmVars, orchVars, cigarVars, scanVars, srBR, trkSvt>>

\* lines 429-431, a record no cluster absorbed
TrackUnassigned ==
    /\ phase = "track"
    /\ trkSvt < 2 * DELLY_SVT_TRANS /\ trkI < Len(srBR[trkSvt])
    /\ TrkRec.svid = -1
    /\ trkI' = trkI + 1
    /\ UNCHANGED <<c, asmVars, orchVars, cigarVars, scanVars, srBR, srStore, trkSvt>>

\* line 428: the inner loop is over, next svt
TrackNextSvt ==
    /\ phase = "track"
    /\ trkSvt < 2 * DELLY_SVT_TRANS /\ trkI >= Len(srBR[trkSvt])
    /\ trkSvt' = trkSvt + 1
    /\ trkI' = 0
    /\ UNCHANGED <<c, asmVars, orchVars, cigarVars, scanVars, srBR, srStore>>

\* line 436: the outer loop is over
TrackDone == trkSvt = 2 * DELLY_SVT_TRANS

NextTrack == TrackAssigned \/ TrackUnassigned \/ TrackNextSvt

SpecTrack == InitTrack /\ [][NextTrack]_vars

\* all records of srBR
AllSR == UNION {{srBR[svt][k] : k \in 1..Len(srBR[svt])} : svt \in DOMAIN srBR}

\* the svid srStore holds under (chr, pos, id), -1 when it holds none
Lookup(chr, pos, id) ==
    IF <<pos, id>> \in DOMAIN srStore[chr] THEN srStore[chr][<<pos, id>>] ELSE -1

\* C4: after the rebuild, for every SR record with an assigned svid, the
\* entry under (chr1, pos1, readId) and the entry under (chr2, pos2, readId)
\* both hold that record's svid, for any set of SR records.
C4_BothEndpointsHoldSvid ==
    TrackDone =>
        \A r \in AllSR : r.svid # -1 =>
            /\ Lookup(r.chr, r.pos, r.id) = r.svid
            /\ Lookup(r.chr2, r.pos2, r.id) = r.svid

(***************************************************************************)
(* scanPEandSR, the per-sample scan (lines 228-389): what one read does.   *)
(***************************************************************************)
\* util.h, hash_string: the hash of a read name; no two names of the model
\* collide
hash_string(qname) == IF qname = "r1" THEN 1 ELSE 2

\* line 272: unsigned seed = hash_string(...); the hashes of the model fit
SeedOf(r) == hash_string(r.qname)

\* util.h, hash_pair: read name, then own and mate coordinates
hash_pair(r) == <<hash_string(r.qname), r.tid, r.pos, r.mtid, r.mpos>>

\* util.h, hash_pair_mate: the same with the coordinates swapped, so that it
\* equals hash_pair of the mate
hash_pair_mate(r) == <<hash_string(r.qname), r.mtid, r.mpos, r.tid, r.pos>>

\* util.h, _translocation(rec)
translocationRec(r) == r.tid # r.mtid

\* util.h, alignmentLength: the reference bases the alignment covers
RECURSIVE alignmentLengthFrom(_, _)
alignmentLengthFrom(cg, k) ==
    IF k > Len(cg) THEN 0
    ELSE (IF cg[k].op \in {"M", "EQ", "X", "D", "N"} THEN cg[k].len ELSE 0)
         + alignmentLengthFrom(cg, k + 1)

alignmentLength(r) == alignmentLengthFrom(r.cigar, 1)

\* util.h, getSVType: the pair's orientation, the same for both mates
getSVType(r) ==
    LET before == IF r.tid = r.mtid THEN r.pos < r.mpos ELSE r.tid < r.mtid
        after == IF r.tid = r.mtid THEN r.pos > r.mpos ELSE r.tid > r.mtid
    IN  IF "REVERSE" \notin r.flag
        THEN (IF "MREVERSE" \notin r.flag THEN 0
              ELSE IF before THEN 2 ELSE 3)
        ELSE (IF "MREVERSE" \in r.flag THEN 1
              ELSE IF after THEN 2 ELSE 3)

\* _isizeMappingPos as if an insert size equal to the tolerated maximum
\* were beyond it
isizeMappingPosInclusive(r, isize) ==
    IF translocationRec(r) THEN DELLY_SVT_TRANS + getSVType(r)
    ELSE IF getSVType(r) = 2 /\ Abs(r.isize) < isize THEN -1
    ELSE getSVType(r)

\* util.h, _isizeMappingPos (spec 4.B): the svt of a pair, -1 to reject; a
\* deletion-oriented pair needs an insert size beyond the tolerated maximum
isizeMappingPos(r, isize) ==
    IF translocationRec(r) THEN DELLY_SVT_TRANS + getSVType(r)
    ELSE IF getSVType(r) = 2 /\ ~(Abs(r.isize) > isize) THEN -1
    ELSE getSVType(r)

\* util.h, _firstPairObs (spec 4.C): the mate with the lower reference, then
\* position, comes first; at equal positions the read whose name is not yet
\* in the position's set
firstPairObs(r, posReads) ==
    IF r.tid = r.mtid
    THEN r.pos < r.mpos \/ (r.pos = r.mpos /\ hash_string(r.qname) \notin posReads)
    ELSE r.tid < r.mtid

\* lines 269-270: the read is dropped before anything is done with it
Filtered(r, cfg) ==
    \/ r.flag \cap {"QCFAIL", "DUP", "UNMAP"} # {}
    \/ r.qual < cfg.minMapQual
    \/ r.tid < 0

RECURSIVE ParseFrom(_, _, _, _)
\* lines 280-307: the CIGAR loop from operation k on
ParseFrom(st, r, cfg, k) ==
    IF k > Len(r.cigar) THEN st
    ELSE ParseFrom(CigarOp(st, r.cigar[k], r, cfg), r, cfg, k + 1)

\* lines 275-307: the junction map after the read's CIGAR is parsed
ParseCigar(rb, r, cfg) ==
    LET seed == SeedOf(r)
        old == IF seed \in DOMAIN rb THEN rb[seed] ELSE <<>>
        new == ParseFrom([rp |-> r.pos, sp |-> 0, bp |-> old], r, cfg, 1).bp
    IN  IF new = old THEN rb ELSE MapPut(rb, seed, new)

\* line 231
overallMaxISize(lib) == Max(lib.maxISizeCutoff, lib.rs)

\* mutant: the single-end test is gone
SingleEndNever(lib) == FALSE

\* line 312: single-end library
SingleEnd(lib) == lib.median = 0

\* line 326: the library-specific insert size check for deletions
DeletionTooSmall(r, svt, lib) == svt = 2 /\ lib.maxISizeCutoff > Abs(r.isize)

\* lines 310-326: the read gives no paired-end evidence (each disjunct is one
\* of the code's continue statements, in the code's order)
NoPairedEnd(r, cfg, lib, regions) ==
    \/ "PAIRED" \notin r.flag
    \/ SingleEnd(lib)
    \/ r.flag \cap {"SECONDARY", "SUPPLEMENTARY"} # {}
    \/ r.mtid < 0 \/ "MUNMAP" \in r.flag
    \/ (r.mtid >= 0 /\ regions[r.mtid] = <<>>)
    \/ (translocationRec(r) /\ r.qual < cfg.minTraQual)
    \/ isizeMappingPos(r, overallMaxISize(lib)) = -1
    \/ (cfg.svtcmd /\ isizeMappingPos(r, overallMaxISize(lib)) \notin cfg.svtset)
    \/ DeletionTooSmall(r, isizeMappingPos(r, overallMaxISize(lib)), lib)

\* lines 329-332: the set of the reads at the current position, after the
\* clean-up
PosReadsAt(r, lap, lapr) == IF r.pos > lap THEN {} ELSE lapr

\* mutant: the stored quality is taken as the pair quality
PairQualityStored(p, r) == p.qual

\* lines 350, 357: std::min of the stored and the read's mapping quality
PairQuality(p, r) == Min(p.qual, r.qual)

\* mutant: the stored quality is left as it is
ConsumeNot(mp, hv) == mp

\* lines 352, 359: the stored quality is zeroed, the pair is consumed
Consume(mp, hv) == [mp EXCEPT ![hv].qual = 0]

\* lines 348, 355: no mate is stored under hv, or it is consumed
MateDiscarded(mp, hv) == IF hv \in DOMAIN mp THEN mp[hv].qual = 0 ELSE TRUE

\* lines 339-340: the first mate's quality and alignment length
StoreMate(mp, r) ==
    MapPut(mp, hash_pair(r), [qual |-> r.qual, len |-> alignmentLength(r)])

(***************************************************************************)
(* scanPEandSR: the workers' steps.                                        *)
(***************************************************************************)
\* the workers, one per sample (line 229: file_c)
Workers == DOMAIN pc

\* mutant: one junction map for all workers, as if declared before line 228
ReadBpShared(w) == 0

\* lines 228, 241: readBp is declared inside the body of the parallel loop,
\* so every worker has a junction map of its own
ReadBpOf(w) == w

\* mutant: the two critical sections carry different names
CriticalNamePerSite(site) == site

\* lines 362, 381: both critical sections are unnamed, so they are one
\* critical section, whatever the place
CriticalName(site) == "unnamed"

\* the interval worker w is streaming
CurInterval(w) == validRegions[refIndex[w]][vRIt[w] + 1]

\* the records the stream delivered in the interval w is in
SeenHere(w) ==
    {k \in 1..Len(seen[w]) :
        seen[w][k].ref = refIndex[w] /\ seen[w][k].iv = vRIt[w]}

\* position of the last record delivered in this interval (streams are
\* sorted by position)
StreamPos(w) ==
    IF SeenHere(w) = {} THEN 0
    ELSE seen[w][CHOOSE k \in SeenHere(w) : \A j \in SeenHere(w) : j <= k].rec.pos

\* sam_itr_next may deliver r to w: a record of D on this reference, inside
\* the interval, not before the last one, while fewer than n were delivered
Deliverable(w, r, D, n) ==
    /\ r \in D
    /\ Len(seen[w]) < n
    /\ r.tid = refIndex[w]
    /\ r.pos >= CurInterval(w).lower /\ r.pos < CurInterval(w).upper
    /\ r.pos >= StreamPos(w)

\* the stream's history with r delivered
Delivered(w, r) ==
    [seen EXCEPT ![w] = Append(@, [ref |-> refIndex[w], iv |-> vRIt[w], rec |-> r])]

\* line 244: the loop over the references is over
RefLoopEnd(w) ==
    /\ pc[w] = "ref" /\ refIndex[w] = NumRefs
    /\ pc' = [pc EXCEPT ![w] = "sort"]
    /\ UNCHANGED <<c, asmVars, orchVars, cigarVars, trackVars, sampleLib, validRegions, refIndex,
                   vRIt, matetra, mateMap, readBp, lastAlignedPos,
                   lastAlignedPosReads, pending, bamRecord, crit, seen>>

\* line 248: no valid region on this reference
RefSkipInvalid(w) ==
    /\ pc[w] = "ref" /\ refIndex[w] < NumRefs
    /\ validRegions[refIndex[w]] = <<>>
    /\ refIndex' = [refIndex EXCEPT ![w] = @ + 1]
    /\ UNCHANGED <<c, asmVars, orchVars, cigarVars, trackVars, sampleLib, validRegions, pc,
                   vRIt, matetra, mateMap, readBp, lastAlignedPos,
                   lastAlignedPosReads, pending, bamRecord, crit, seen>>

\* lines 249-257: the index reports no read of this sample on the reference
\* (and the file is no cram file); the stream would deliver nothing
RefSkipNoData(w) ==
    /\ pc[w] = "ref" /\ refIndex[w] < NumRefs
    /\ validRegions[refIndex[w]] # <<>>
    /\ refIndex' = [refIndex EXCEPT ![w] = @ + 1]
    /\ UNCHANGED <<c, asmVars, orchVars, cigarVars, trackVars, sampleLib, validRegions, pc,
                   vRIt, matetra, mateMap, readBp, lastAlignedPos,
                   lastAlignedPosReads, pending, bamRecord, crit, seen>>

\* lines 259-263 with mateMap declared outside the loop over the references
RefEnterKeepsMap(w) ==
    /\ pc[w] = "ref" /\ refIndex[w] < NumRefs
    /\ validRegions[refIndex[w]] # <<>>
    /\ vRIt' = [vRIt EXCEPT ![w] = 0]
    /\ pc' = [pc EXCEPT ![w] = "iv"]
    /\ UNCHANGED <<c, asmVars, orchVars, cigarVars, trackVars, sampleLib,
                   validRegions, refIndex, matetra, mateMap, readBp,
                   lastAlignedPos, lastAlignedPosReads, pending, bamRecord,
                   crit, seen>>

\* lines 259-263: a fresh intra-chromosomal mate map, first interval
RefEnter(w) ==
    /\ pc[w] = "ref" /\ refIndex[w] < NumRefs
    /\ validRegions[refIndex[w]] # <<>>
    /\ mateMap' = [mateMap EXCEPT ![w] = <<>>]
    /\ vRIt' = [vRIt EXCEPT ![w] = 0]
    /\ pc' = [pc EXCEPT ![w] = "iv"]
    /\ UNCHANGED <<c, asmVars, orchVars, cigarVars, trackVars, sampleLib, validRegions, refIndex,
                   matetra, readBp, lastAlignedPos, lastAlignedPosReads,
                   pending, bamRecord, crit, seen>>

\* line 263: the intervals of this reference are done, next reference
IvEnd(w) ==
    /\ pc[w] = "iv" /\ vRIt[w] = Len(validRegions[refIndex[w]])
    /\ refIndex' = [refIndex EXCEPT ![w] = @ + 1]
    /\ pc' = [pc EXCEPT ![w] = "ref"]
    /\ UNCHANGED <<c, asmVars, orchVars, cigarVars, trackVars, sampleLib, validRegions, vRIt,
                   matetra, mateMap, readBp, lastAlignedPos,
                   lastAlignedPosReads, pending, bamRecord, crit, seen>>

\* lines 264-267: a new iterator, lastAlignedPos and its set start afresh
IvEnter(w) ==
    /\ pc[w] = "iv" /\ vRIt[w] < Len(validRegions[refIndex[w]])
    /\ lastAlignedPos' = [lastAlignedPos EXCEPT ![w] = 0]
    /\ lastAlignedPosReads' = [lastAlignedPosReads EXCEPT ![w] = {}]
    /\ pc' = [pc EXCEPT ![w] = "read"]
    /\ UNCHANGED <<c, asmVars, orchVars, cigarVars, trackVars, sampleLib, validRegions, refIndex,
                   vRIt, matetra, mateMap, readBp, pending, bamRecord, crit,
                   seen>>

\* line 268: sam_itr_next < 0, the interval is exhausted
StreamEnd(w) ==
    /\ pc[w] = "read"
    /\ vRIt' = [vRIt EXCEPT ![w] = @ + 1]
    /\ pc' = [pc EXCEPT ![w] = "iv"]
    /\ UNCHANGED <<c, asmVars, orchVars, cigarVars, trackVars, sampleLib, validRegions, refIndex,
                   matetra, mateMap, readBp, lastAlignedPos,
                   lastAlignedPosReads, pending, bamRecord, crit, seen>>

\* lines 269-270: a read the filters drop; nothing is done with it
ReadFiltered(w, D, n) ==
    /\ pc[w] = "read"
    /\ \E r \in D :
         /\ Deliverable(w, r, D, n)
         /\ Filtered(r, c)
         /\ seen' = Delivered(w, r)
    /\ UNCHANGED <<c, asmVars, orchVars, cigarVars, trackVars, sampleLib, validRegions, pc,
                   refIndex, vRIt, matetra, mateMap, readBp, lastAlignedPos,
                   lastAlignedPosReads, pending, bamRecord, crit>>

\* lines 272-326: the CIGAR is parsed, then one of the continue statements of
\* the paired-end part ends the iteration
ReadJunctionsOnly(w, D, n) ==
    /\ pc[w] = "read"
    /\ \E r \in D :
         /\ Deliverable(w, r, D, n)
         /\ ~Filtered(r, c)
         /\ NoPairedEnd(r, c, sampleLib[w], validRegions)
         /\ readBp' = [readBp EXCEPT ![ReadBpOf(w)] = ParseCigar(@, r, c)]
         /\ seen' = Delivered(w, r)
    /\ UNCHANGED <<c, asmVars, orchVars, cigarVars, trackVars, sampleLib, validRegions, pc,
                   refIndex, vRIt, matetra, mateMap, lastAlignedPos,
                   lastAlignedPosReads, pending, bamRecord, crit>>

\* lines 272-340: the first mate of a pair: its quality and length are stored
ReadFirstMate(w, D, n) ==
    /\ pc[w] = "read"
    /\ \E r \in D :
         LET svt == isizeMappingPos(r, overallMaxISize(sampleLib[w]))
             lapr == PosReadsAt(r, lastAlignedPos[w], lastAlignedPosReads[w])
         IN  /\ Deliverable(w, r, D, n)
             /\ ~Filtered(r, c)
             /\ ~NoPairedEnd(r, c, sampleLib[w], validRegions)
             /\ firstPairObs(r, lapr)
             /\ readBp' = [readBp EXCEPT ![ReadBpOf(w)] = ParseCigar(@, r, c)]
             /\ lastAlignedPos' =
                  [lastAlignedPos EXCEPT ![w] = Max(@, r.pos)]
             /\ lastAlignedPosReads' =
                  [lastAlignedPosReads EXCEPT ![w] = lapr \cup {SeedOf(r)}]
             /\ IF translocationSvt(svt)
                THEN /\ matetra' = [matetra EXCEPT ![w] = StoreMate(@, r)]
                     /\ UNCHANGED mateMap
                ELSE /\ mateMap' = [mateMap EXCEPT ![w] = StoreMate(@, r)]
                     /\ UNCHANGED matetra
             /\ seen' = Delivered(w, r)
    /\ UNCHANGED <<c, asmVars, orchVars, cigarVars, trackVars, sampleLib, validRegions, pc,
                   refIndex, vRIt, pending, bamRecord, crit>>

\* lines 272-355: a second mate whose first mate is not stored, or is
\* consumed
ReadMateDiscarded(w, D, n) ==
    /\ pc[w] = "read"
    /\ \E r \in D :
         LET svt == isizeMappingPos(r, overallMaxISize(sampleLib[w]))
             lapr == PosReadsAt(r, lastAlignedPos[w], lastAlignedPosReads[w])
             mp == IF translocationSvt(svt) THEN matetra[w] ELSE mateMap[w]
         IN  /\ Deliverable(w, r, D, n)
             /\ ~Filtered(r, c)
             /\ ~NoPairedEnd(r, c, sampleLib[w], validRegions)
             /\ ~firstPairObs(r, lapr)
             /\ MateDiscarded(mp, hash_pair_mate(r))
             /\ readBp' = [readBp EXCEPT ![ReadBpOf(w)] = ParseCigar(@, r, c)]
             /\ lastAlignedPos' =
                  [lastAlignedPos EXCEPT ![w] = Max(@, r.pos)]
             /\ lastAlignedPosReads' =
                  [lastAlignedPosReads EXCEPT ![w] = lapr]
             /\ seen' = Delivered(w, r)
    /\ UNCHANGED <<c, asmVars, orchVars, cigarVars, trackVars, sampleLib, validRegions, pc,
                   refIndex, vRIt, matetra, mateMap, pending, bamRecord, crit>>

\* lines 272-360: a second mate whose first mate is stored: the pair quality
\* is taken, the stored quality zeroed, and the worker goes for the critical
\* section of line 362
ReadSecondMate(w, D, n) ==
    /\ pc[w] = "read"
    /\ \E r \in D :
         LET svt == isizeMappingPos(r, overallMaxISize(sampleLib[w]))
             lapr == PosReadsAt(r, lastAlignedPos[w], lastAlignedPosReads[w])
             hv == hash_pair_mate(r)
             mp == IF translocationSvt(svt) THEN matetra[w] ELSE mateMap[w]
         IN  /\ Deliverable(w, r, D, n)
             /\ ~Filtered(r, c)
             /\ ~NoPairedEnd(r, c, sampleLib[w], validRegions)
             /\ ~firstPairObs(r, lapr)
             /\ ~MateDiscarded(mp, hv)
             /\ readBp' = [readBp EXCEPT ![ReadBpOf(w)] = ParseCigar(@, r, c)]
             /\ lastAlignedPos' =
                  [lastAlignedPos EXCEPT ![w] = Max(@, r.pos)]
             /\ lastAlignedPosReads' =
                  [lastAlignedPosReads EXCEPT ![w] = lapr]
             /\ pending' = [pending EXCEPT ![w] =
                  [svt |-> svt, rec |-> r, pairQuality |-> PairQuality(mp[hv], r),
                   alenmate |-> mp[hv].len, nth |-> Len(seen[w]) + 1]]
             /\ IF translocationSvt(svt)
                THEN /\ matetra' = [matetra EXCEPT ![w] = Consume(@, hv)]
                     /\ UNCHANGED mateMap
                ELSE /\ mateMap' = [mateMap EXCEPT ![w] = Consume(@, hv)]
                     /\ UNCHANGED matetra
             /\ seen' = Delivered(w, r)
    /\ pc' = [pc EXCEPT ![w] = "push"]
    /\ UNCHANGED <<c, asmVars, orchVars, cigarVars, trackVars, sampleLib, validRegions,
                   refIndex, vRIt, bamRecord, crit>>

\* line 362: the worker enters the critical section
EnterPush(w) ==
    /\ pc[w] = "push"
    /\ CriticalName("push") \notin crit
    /\ crit' = crit \cup {CriticalName("push")}
    /\ pc' = [pc EXCEPT ![w] = "inpush"]
    /\ UNCHANGED <<c, asmVars, orchVars, cigarVars, trackVars, sampleLib, validRegions, refIndex,
                   vRIt, matetra, mateMap, readBp, lastAlignedPos,
                   lastAlignedPosReads, pending, bamRecord, seen>>

\* line 364: the BamAlignRecord of the pending pair (bamrecord.h)
BamAlignRecord(w) ==
    [file |-> w, nth |-> pending[w].nth, rec |-> pending[w].rec,
     MapQuality |-> pending[w].pairQuality,
     alen |-> alignmentLength(pending[w].rec), malen |-> pending[w].alenmate,
     Median |-> sampleLib[w].median, Mad |-> sampleLib[w].mad,
     maxNormalISize |-> sampleLib[w].maxNormalISize]

\* lines 364-366: the record is appended, the critical section left, the
\* sample's counter of abnormal pairs incremented
PushBack(w) ==
    /\ pc[w] = "inpush"
    /\ bamRecord' = [bamRecord EXCEPT ![pending[w].svt] = Append(@, BamAlignRecord(w))]
    /\ crit' = crit \ {CriticalName("push")}
    /\ sampleLib' = [sampleLib EXCEPT ![w].abnormal_pairs = @ + 1]
    /\ pending' = [pending EXCEPT ![w] = <<>>]
    /\ pc' = [pc EXCEPT ![w] = "read"]
    /\ UNCHANGED <<c, asmVars, orchVars, cigarVars, trackVars, validRegions, refIndex,
                   vRIt, matetra, mateMap, readBp, lastAlignedPos,
                   lastAlignedPosReads, seen>>

\* junction.h, SortJunction: by read-sequence offset
JunctionLess(a, b) == a.seqpos < b.seqpos

RECURSIVE InsertJunctionSorted(_, _)
\* js with x put behind the last junction that is not behind x
InsertJunctionSorted(js, x) ==
    IF js = <<>> THEN <<x>>
    ELSE IF JunctionLess(x, js[Len(js)])
         THEN Append(InsertJunctionSorted(SubSeq(js, 1, Len(js) - 1), x), js[Len(js)])
         ELSE Append(js, x)

RECURSIVE SortJunctionsFrom(_, _)
SortJunctionsFrom(js, k) ==
    IF k = 0 THEN <<>>
    ELSE InsertJunctionSorted(SortJunctionsFrom(js, k - 1), js[k])

\* line 377: std::sort of one read's junctions
SortJunctionVector(js) == SortJunctionsFrom(js, Len(js))

\* lines 376-378: every read's junctions are sorted
SortJunctions(w) ==
    /\ pc[w] = "sort"
    /\ readBp' = [readBp EXCEPT ![ReadBpOf(w)] =
                    [seed \in DOMAIN @ |-> SortJunctionVector(@[seed])]]
    /\ pc' = [pc EXCEPT ![w] = "sel"]
    /\ UNCHANGED <<c, asmVars, orchVars, cigarVars, trackVars, sampleLib, validRegions, refIndex,
                   vRIt, matetra, mateMap, lastAlignedPos,
                   lastAlignedPosReads, pending, bamRecord, crit, seen>>

\* junction.h, the five selectors (spec 4.E): the svt two junctions x, y of
\* one read stand for (x before y in the sorted vector), -1 for none
ClassifySR(x, y, cfg) ==
    IF x.refidx # y.refidx
    THEN (IF x.forward = y.forward
          THEN (IF x.scleft # y.scleft
                THEN DELLY_SVT_TRANS + (IF x.scleft THEN 3 ELSE 2) ELSE -1)
          ELSE (IF x.scleft = y.scleft
                THEN DELLY_SVT_TRANS + (IF x.scleft THEN 1 ELSE 0) ELSE -1))
    ELSE IF x.forward # y.forward
    THEN (IF x.scleft = y.scleft THEN (IF x.scleft THEN 1 ELSE 0) ELSE -1)
    ELSE IF x.scleft = y.scleft THEN -1
    ELSE LET l == IF x.scleft THEN y ELSE x
             r == IF x.scleft THEN x ELSE y
         IN  IF r.refpos - l.refpos > cfg.minRefSep THEN 2
             ELSE IF l.refpos - r.refpos > cfg.minRefSep THEN 3
             ELSE IF Abs(y.seqpos - x.seqpos) > cfg.minRefSep THEN 4
             ELSE -1

\* junction.h, SRBamRecord of two junctions, canonical: the lower position
\* first, for a translocation the higher reference first
SRBamRecord(seed, x, y, svt) ==
    LET xfirst == IF x.refidx # y.refidx THEN x.refidx > y.refidx
                  ELSE x.refpos <= y.refpos
        a == IF xfirst THEN x ELSE y
        b == IF xfirst THEN y ELSE x
    IN  [chr |-> a.refidx, pos |-> a.refpos, chr2 |-> b.refidx,
         pos2 |-> b.refpos, id |-> seed, svt |-> svt, svid |-> -1]

\* the junction pairs (seed, a, b) of rb that stand for svt
SelectedKeys(rb, svt, cfg) ==
    {k \in UNION {{<<seed, a, b>> : a \in 1..Len(rb[seed]), b \in 1..Len(rb[seed])} :
                    seed \in DOMAIN rb} :
        k[2] < k[3] /\ ClassifySR(rb[k[1]][k[2]], rb[k[1]][k[3]], cfg) = svt}

\* the order the selectors walk the map and the vectors in
KeyLess(k, l) ==
    \E n \in 1..3 : k[n] < l[n] /\ \A j \in 1..(n - 1) : k[j] = l[j]

RECURSIVE SelectedFrom(_, _, _)
SelectedFrom(rb, K, svt) ==
    IF K = {} THEN <<>>
    ELSE LET k == CHOOSE x \in K : \A y \in K \ {x} : KeyLess(x, y)
         IN  <<SRBamRecord(k[1], rb[k[1]][k[2]], rb[k[1]][k[3]], svt)>>
             \o SelectedFrom(rb, K \ {k}, svt)

\* lines 383-387: what the five selectors append to srBR[svt]
Selected(rb, svt, cfg) == SelectedFrom(rb, SelectedKeys(rb, svt, cfg), svt)

\* line 381: the worker enters the critical section
EnterSelect(w) ==
    /\ pc[w] = "sel"
    /\ CriticalName("select") \notin crit
    /\ crit' = crit \cup {CriticalName("select")}
    /\ pc' = [pc EXCEPT ![w] = "insel"]
    /\ UNCHANGED <<c, asmVars, orchVars, cigarVars, trackVars, sampleLib, validRegions, refIndex,
                   vRIt, matetra, mateMap, readBp, lastAlignedPos,
                   lastAlignedPosReads, pending, bamRecord, seen>>

\* lines 383-388: the five selectors run, the critical section is left and
\* the iteration of the parallel loop ends
Select(w) ==
    /\ pc[w] = "insel"
    /\ srBR' = [svt \in Svts |-> srBR[svt] \o Selected(readBp[ReadBpOf(w)], svt, c)]
    /\ crit' = crit \ {CriticalName("select")}
    /\ pc' = [pc EXCEPT ![w] = "done"]
    /\ UNCHANGED <<c, asmVars, orchVars, cigarVars, srStore, trkSvt, trkI, sampleLib,
                   validRegions, refIndex, vRIt, matetra, mateMap, readBp,
                   lastAlignedPos, lastAlignedPosReads, pending, bamRecord,
                   seen>>

(***************************************************************************)
(* scanPEandSR: the inputs explored and the two specifications.            *)
(***************************************************************************)
\* samples scanned in parallel by SpecPar (c.files.size())
NumFiles == 2

\* records one sample's streams deliver in SpecScan
MaxReads == 3

\* records one sample's streams deliver in SpecPar
MaxParReads == 2

Rd(q, fl, ql, t, p, mt, mp, is, cg) ==
    [qname |-> q, flag |-> fl, qual |-> ql, tid |-> t, pos |-> p,
     mtid |-> mt, mpos |-> mp, isize |-> is, cigar |-> cg]

\* a CIGAR without junctions, one with a qualifying leading clip, one with a
\* qualifying deletion
CgPlain == <<[op |-> "M", len |-> 2]>>

CgClip == <<[op |-> "S", len |-> 3], [op |-> "M", len |-> 2]>>

CgDel == <<[op |-> "M", len |-> 1], [op |-> "D", len |-> 3], [op |-> "M", len |-> 1]>>

\* a CIGAR with an operation the loop does not know (padding) before a
\* qualifying clip
CgPad == <<[op |-> "P", len |-> 2], [op |-> "S", len |-> 3], [op |-> "M", len |-> 2]>>

\* pair 1, read r1 on reference 0: deletion-oriented mates at 1 and 2
Pair1A(ql, is, fl, cg) == Rd("r1", {"PAIRED", "MREVERSE"} \cup fl, ql, 0, 1, 0, 2, is, cg)

Pair1B(ql, is, cg) == Rd("r1", {"PAIRED", "REVERSE"}, ql, 0, 2, 0, 1, -is, cg)

\* pair 2: both mates at position 1 of reference 0, both forward
Pair2(q, ql) == Rd(q, {"PAIRED"}, ql, 0, 1, 0, 1, 0, CgPlain)

\* pair 3, read r2: one mate on reference 0, the other on reference 1
Pair3A(ql) == Rd("r2", {"PAIRED"}, ql, 0, 2, 1, 1, 0, CgPlain)

Pair3B(ql) == Rd("r2", {"PAIRED"}, ql, 1, 1, 0, 2, 0, CgPlain)

\* the records of SpecScan: the three pairs at mapping qualities 0..2, the
\* first mate of pair 1 with each flag the code tests, without a mapped mate,
\* unpaired, and at the insert size cutoff; reads with junctions; pair 1
\* with an unknown operation in both CIGARs
ScanRecords ==
    {Pair1A(ql, 4, {}, CgPlain) : ql \in 0..2}
    \cup {Pair1B(ql, 4, CgPlain) : ql \in 0..2}
    \cup {Pair2("r1", 1), Pair2("r1", 2), Pair2("r2", 2)}
    \cup {Pair3A(ql) : ql \in 0..2}
    \cup {Pair3B(ql) : ql \in 0..2}
    \cup {Pair1A(2, 4, {f}, CgClip) :
            f \in {"QCFAIL", "DUP", "UNMAP", "SECONDARY", "SUPPLEMENTARY", "MUNMAP"}}
    \cup {Rd("r1", {}, 2, 0, 1, 0, 2, 4, CgClip),
          Rd("r1", {"PAIRED", "MREVERSE"}, 2, 0, 1, -1, 2, 4, CgClip),
          Pair1A(0, 4, {}, CgClip), Pair1A(1, 4, {}, CgClip),
          Pair1B(2, 4, CgDel),
          Pair1A(2, 3, {}, CgPlain), Pair1B(2, 3, CgPlain),
          Pair1A(2, 4, {}, CgPad), Pair1B(2, 4, CgPad)}

\* the records of SpecPar: pair 1 and pair 3 with junctions, and a read the
\* filters drop
ParRecords ==
    {Pair1A(2, 4, {}, CgClip), Pair1B(1, 4, CgDel), Pair3A(2), Pair3B(2),
     Pair1A(2, 4, {"QCFAIL"}, CgClip)}

Config(mmq, mtq, cmd, set) ==
    [minMapQual |-> mmq, minTraQual |-> mtq, minRefSep |-> 2, minClip |-> 2,
     maxReadSep |-> 1, svtcmd |-> cmd, svtset |-> set]

\* a paired-end library (median insert size 2, cutoff 3) and a single-end one
Library(median) ==
    [median |-> median, mad |-> 1, maxNormalISize |-> 3, maxISizeCutoff |-> 3,
     rs |-> 2, abnormal_pairs |-> 0]

OneInterval == <<[lower |-> 0, upper |-> 3]>>

AllValid == [r \in Refs |-> OneInterval]

\* reference 1 is blacklisted: it has no valid region
OnlyRef0 == [r \in Refs |-> IF r = 0 THEN OneInterval ELSE <<>>]

\* the runs of SpecScan: the usual thresholds, minMapQual 0, a single-end
\* library, a blacklisted reference, an svt allow-list
ScanScenarios ==
    {[cfg |-> Config(1, 2, FALSE, {}), median |-> 2, regions |-> AllValid],
     [cfg |-> Config(0, 1, FALSE, {}), median |-> 2, regions |-> AllValid],
     [cfg |-> Config(1, 2, FALSE, {}), median |-> 0, regions |-> AllValid],
     [cfg |-> Config(1, 2, FALSE, {}), median |-> 2, regions |-> OnlyRef0],
     [cfg |-> Config(1, 2, TRUE, {2}), median |-> 2, regions |-> AllValid]}

ParScenarios ==
    {[cfg |-> Config(1, 2, FALSE, {}), median |-> 2, regions |-> AllValid],
     [cfg |-> Config(1, 2, FALSE, {}), median |-> 2, regions |-> OnlyRef0]}

\* lines 197-241: the state when the workers start, nf samples
InitScanWith(nf, scenarios) ==
    /\ CigarIdle
    /\ AsmIdle
    /\ OrchIdle /\ phase = "scan"
    /\ \E sc \in scenarios :
         /\ c = sc.cfg
         /\ sampleLib = [w \in 0..(nf - 1) |-> Library(sc.median)]
         /\ validRegions = sc.regions
    /\ pc = [w \in 0..(nf - 1) |-> "ref"]
    /\ refIndex = [w \in 0..(nf - 1) |-> 0]
    /\ vRIt = [w \in 0..(nf - 1) |-> 0]
    /\ matetra = [w \in 0..(nf - 1) |-> <<>>]
    /\ mateMap = [w \in 0..(nf - 1) |-> <<>>]
    /\ readBp = [w \in 0..(nf - 1) |-> <<>>]
    /\ lastAlignedPos = [w \in 0..(nf - 1) |-> 0]
    /\ lastAlignedPosReads = [w \in 0..(nf - 1) |-> {}]
    /\ pending = [w \in 0..(nf - 1) |-> <<>>]
    /\ seen = [w \in 0..(nf - 1) |-> <<>>]
    /\ bamRecord = [svt \in Svts |-> <<>>]
    /\ crit = {}
    /\ srBR = [svt \in Svts |-> <<>>]
    /\ srStore = [r \in Refs |-> <<>>]
    /\ trkSvt = 0
    /\ trkI = 0

InitScan == InitScanWith(1, ScanScenarios)

NextScan ==
    \/ \E w \in Workers : RefLoopEnd(w)
    \/ \E w \in Workers : RefSkipInvalid(w)
    \/ \E w \in Workers : RefSkipNoData(w)
    \/ \E w \in Workers : RefEnter(w)
    \/ \E w \in Workers : IvEnd(w)
    \/ \E w \in Workers : IvEnter(w)
    \/ \E w \in Workers : StreamEnd(w)
    \/ \E w \in Workers : ReadFiltered(w, ScanRecords, MaxReads)
    \/ \E w \in Workers : ReadJunctionsOnly(w, ScanRecords, MaxReads)
    \/ \E w \in Workers : ReadFirstMate(w, ScanRecords, MaxReads)
    \/ \E w \in Workers : ReadMateDiscarded(w, ScanRecords, MaxReads)
    \/ \E w \in Workers : ReadSecondMate(w, ScanRecords, MaxReads)
    \/ \E w \in Workers : EnterPush(w)
    \/ \E w \in Workers : PushBack(w)
    \/ \E w \in Workers : SortJunctions(w)
    \/ \E w \in Workers : EnterSelect(w)
    \/ \E w \in Workers : Select(w)

\* scanPEandSR on one sample
SpecScan == InitScan /\ [][NextScan]_vars

InitPar == InitScanWith(NumFiles, ParScenarios)

NextPar ==
    \/ \E w \in Workers : RefLoopEnd(w)
    \/ \E w \in Workers : RefSkipInvalid(w)
    \/ \E w \in Workers : RefSkipNoData(w)
    \/ \E w \in Workers : RefEnter(w)
    \/ \E w \in Workers : IvEnd(w)
    \/ \E w \in Workers : IvEnter(w)
    \/ \E w \in Workers : StreamEnd(w)
    \/ \E w \in Workers : ReadFiltered(w, ParRecords, MaxParReads)
    \/ \E w \in Workers : ReadJunctionsOnly(w, ParRecords, MaxParReads)
    \/ \E w \in Workers : ReadFirstMate(w, ParRecords, MaxParReads)
    \/ \E w \in Workers : ReadMateDiscarded(w, ParRecords, MaxParReads)
    \/ \E w \in Workers : ReadSecondMate(w, ParRecords, MaxParReads)
    \/ \E w \in Workers : EnterPush(w)
    \/ \E w \in Workers : PushBack(w)
    \/ \E w \in Workers : SortJunctions(w)
    \/ \E w \in Workers : EnterSelect(w)
    \/ \E w \in Workers : Select(w)

\* scanPEandSR on NumFiles samples, one worker each
SpecPar == InitPar /\ [][NextPar]_vars

(***************************************************************************)
(* Claims on the scan of one sample (SpecScan).                            *)
(***************************************************************************)
\* the pair evidence emitted so far
AllBam ==
    UNION {{bamRecord[svt][k] : k \in 1..Len(bamRecord[svt])} : svt \in DOMAIN bamRecord}

\* b's first mate: a record the same stream delivered before b's read, under
\* the hash b's read looks up, with the qualities related by P
HasFirstMate(b, P(_, _)) ==
    \E j \in 1..(b.nth - 1) :
        LET f == seen[b.file][j].rec
        IN  /\ hash_pair(f) = hash_pair_mate(b.rec)
            /\ P(f.qual, b.rec.qual)
            /\ b.MapQuality = Min(f.qual, b.rec.qual)

\* C1 as stated: the pair quality of every BamAlignRecord is the minimum of
\* the mapping qualities of the two mates, and both mates' mapping qualities
\* exceeded minMapQual.
C1_BothExceedMinMapQual ==
    \A b \in AllBam :
        HasFirstMate(b, LAMBDA fq, sq : fq > c.minMapQual /\ sq > c.minMapQual)

\* C1 as amended: the pair quality of every BamAlignRecord is the minimum of
\* the mapping qualities of the two mates, and both mates' mapping qualities
\* were at least minMapQual (a read at exactly minMapQual is kept).
C1_PairQualityIsMin ==
    \A b \in AllBam :
        HasFirstMate(b, LAMBDA fq, sq : fq >= c.minMapQual /\ sq >= c.minMapQual)

\* a pair is emitted whose second mate sits exactly at minMapQual and gives
\* the pair its quality, the first mate being better
C1_Witness ==
    \E b \in AllBam :
        /\ b.rec.qual = c.minMapQual
        /\ b.MapQuality = c.minMapQual
        /\ \E j \in 1..(b.nth - 1) :
             /\ hash_pair(seen[b.file][j].rec) = hash_pair_mate(b.rec)
             /\ seen[b.file][j].rec.qual > b.rec.qual

RECURSIVE JunctionsOfStream(_, _, _)
\* the junction map the first k records of stream sq give, read by read
JunctionsOfStream(sq, k, cfg) ==
    IF k = 0 THEN <<>>
    ELSE LET rb == JunctionsOfStream(sq, k - 1, cfg)
         IN  IF Filtered(sq[k].rec, cfg) THEN rb ELSE ParseCigar(rb, sq[k].rec, cfg)

\* the same once the worker has sorted it (line 377)
ExpectedReadBp(w) ==
    LET rb == JunctionsOfStream(seen[w], Len(seen[w]), c)
    IN  IF pc[w] \in {"sel", "insel", "done"}
        THEN [seed \in DOMAIN rb |-> SortJunctionVector(rb[seed])]
        ELSE rb

\* C9: for a sample whose library median is 0, no BamAlignRecord is ever
\* emitted and no mate-map entry is ever stored, while the junctions of
\* every read that passes the QC-fail/duplicate/unmapped/mapQ filters are
\* still extracted.
C9_SingleEndOnlyJunctions ==
    \A w \in Workers : sampleLib[w].median = 0 =>
        /\ \A b \in AllBam : b.file # w
        /\ pending[w] = <<>>
        /\ mateMap[w] = <<>> /\ matetra[w] = <<>>
        /\ readBp[w] = ExpectedReadBp(w)

\* a single-end sample has read a paired read that passes the filters and
\* whose mate is mapped in a valid region, and holds its junction
C9_Witness ==
    \E w \in Workers :
        /\ sampleLib[w].median = 0
        /\ readBp[w] # <<>>
        /\ \E k \in 1..Len(seen[w]) :
             /\ ~Filtered(seen[w][k].rec, c)
             /\ seen[w][k].rec.cigar = CgClip
             /\ ~NoPairedEnd(seen[w][k].rec, c, Library(2), validRegions)

\* the mate map a read of svt looks its mate up in
MapFor(w, svt) == IF translocationSvt(svt) THEN matetra[w] ELSE mateMap[w]

\* the stored quality under hv, 0 when nothing is stored
StoredQual(mp, hv) == IF hv \in DOMAIN mp THEN mp[hv].qual ELSE 0

\* C10: a second-mate observation emits a BamAlignRecord only if the
\* matching mate map holds an entry under its hash with non-zero stored
\* quality, and the emission zeroes that quality; a stored quality leaves
\* zero only when a first mate is stored under that hash, so further second
\* mates with the same hash emit nothing until then.
C10_MateProtocol ==
    [][\A w \in Workers :
         /\ (pending'[w] # <<>> /\ pending[w] = <<>>) =>
              LET svt == pending'[w].svt
                  hv == hash_pair_mate(pending'[w].rec)
              IN  /\ hv \in DOMAIN MapFor(w, svt)
                  /\ MapFor(w, svt)[hv].qual # 0
                  /\ (IF translocationSvt(svt) THEN matetra'[w] ELSE mateMap'[w])[hv].qual = 0
         /\ \A hv \in DOMAIN mateMap'[w] :
              (StoredQual(mateMap[w], hv) = 0 /\ mateMap'[w][hv].qual # 0) =>
                   /\ Len(seen'[w]) = Len(seen[w]) + 1
                   /\ hash_pair(seen'[w][Len(seen'[w])].rec) = hv
                   /\ pending'[w] = <<>>
         /\ \A hv \in DOMAIN matetra'[w] :
              (StoredQual(matetra[w], hv) = 0 /\ matetra'[w][hv].qual # 0) =>
                   /\ Len(seen'[w]) = Len(seen[w]) + 1
                   /\ hash_pair(seen'[w][Len(seen'[w])].rec) = hv
                   /\ pending'[w] = <<>>]_vars

\* the second mates of the stream of w under hash hv that reached the mate
\* lookup (the reference-then-position order makes them second mates)
SecondMates(w, hv) ==
    {k \in 1..Len(seen[w]) :
        LET r == seen[w][k].rec
        IN  /\ hash_pair_mate(r) = hv
            /\ ~Filtered(r, c)
            /\ ~NoPairedEnd(r, c, sampleLib[w], validRegions)
            /\ (IF r.tid = r.mtid THEN r.pos > r.mpos ELSE r.tid > r.mtid)}

\* two second mates with one hash were observed and handled, and the pair
\* was emitted once
C10_Witness ==
    \E w \in Workers : \E b \in AllBam :
        /\ b.file = w
        /\ pc[w] = "read"
        /\ Cardinality(SecondMates(w, hash_pair_mate(b.rec))) >= 2
        /\ Cardinality({x \in AllBam : x.file = w
                          /\ hash_pair_mate(x.rec) = hash_pair_mate(b.rec)}) = 1

(***************************************************************************)
(* Claims on the parallel scan (SpecPar).                                  *)
(***************************************************************************)
\* C6: the junction list gathered for each read of a sample is a function of
\* that sample's stream alone, the same for every interleaving of the
\* workers: no worker's junction map is read or written by another worker.
C6_JunctionsDeterministic ==
    \A w \in Workers : readBp[w] = ExpectedReadBp(w)

\* two workers are through their streams, each with junctions, from
\* different streams
C6_Witness ==
    \E w \in Workers : \E v \in Workers \ {w} :
        /\ pc[w] = "done" /\ pc[v] = "done"
        /\ readBp[w] # <<>> /\ readBp[v] # <<>>
        /\ readBp[w] # readBp[v]

\* C7: at most one worker at a time is inside a critical section, be it the
\* append of pair evidence (line 364) or the selector block (lines 383-387).
C7_OneInCritical ==
    Cardinality({w \in Workers : pc[w] \in {"inpush", "insel"}}) <= 1

\* one worker is inside the append while another waits at the selector
\* block, and one is inside the selector block while another waits to append
C7_Witness ==
    \E w \in Workers : \E v \in Workers \ {w} :
        \/ pc[w] = "inpush" /\ pc[v] = "sel"
        \/ pc[w] = "insel" /\ pc[v] = "push"

(***************************************************************************)
(* assembleSplitReads (lines 70-192): the second pass over the files, one  *)
(* reference after the other, that gathers the split-read sequences of     *)
(* each SV and hands them to msa and alignConsensus.                       *)
(***************************************************************************)

\* line 93: uint32_t maxReadPerSV = 20
maxReadPerSV == 20

\* files of the assembly (c.files.size())
NumAsmFiles == 2

\* line 143: the 4-bit nucleotide codes
SeqTable ==
    <<"=", "A", "C", "M", "G", "R", "S", "V", "T", "W", "Y", "H", "K", "D", "B", "N">>

\* lines 140-143: the sequence of the read, decoded
DecodeSeq(r) == [k \in 1..Len(r.seq) |-> SeqTable[r.seq[k] + 1]]

\* util.h, from spec 4.H: the complement of a nucleotide
Complement(b) ==
    CASE b = "A" -> "T" [] b = "T" -> "A" [] b = "C" -> "G" [] b = "G" -> "C"
      [] OTHER -> "N"

\* util.h, from spec 4.H
reverseComplement(s) == [k \in 1..Len(s) |-> Complement(s[Len(s) + 1 - k])]

\* util.h, from spec 4.H: the sequence is reverse-complemented when the
\* breakpoint flag is set
adjustOrientation(s, bp, svt) == IF bp THEN reverseComplement(s) ELSE s

\* lines 146-151: the breakpoint flag of read r on reference ref for SV sv
bpPoint(r, ref, sv) ==
    IF translocationRec(r) THEN r.mtid = ref ELSE r.pos > sv.svStart

\* lines 128-129: the read is dropped
AsmFiltered(r, cfg) ==
    \/ r.flag \cap {"QCFAIL", "DUP", "UNMAP", "SECONDARY", "SUPPLEMENTARY"} # {}
    \/ r.qual < cfg.minMapQual
    \/ r.tid < 0

\* lines 113-115: the positions of the bitset hits
Hits(ref) == {k[1] : k \in DOMAIN srStore[ref]}

\* line 134: the key looked up in srStore[refIndex]
AsmKey(r) == <<r.pos, SeedOf(r)>>

\* lines 135-139: the read resolves to an SV record
HasSV(r, ref) ==
    /\ AsmKey(r) \in DOMAIN srStore[ref]
    /\ srStore[ref][AsmKey(r)] \in DOMAIN svs
    /\ srStore[ref][AsmKey(r)] = svs[srStore[ref][AsmKey(r)]].id

\* line 155 without the test of svDone
PushIgnoresDone(done, size) == size < maxReadPerSV

\* line 155 with the cap ignored
PushUncapped(done, size) == ~done

\* line 155: at most maxReadPerSV sequences, none once the SV is done
PushAllowed(done, size) == ~done /\ size < maxReadPerSV

\* line 162: all sequences of the SV are there
Complete(svid) ==
    /\ ~svDone[svid]
    /\ \/ Len(seqStore[svid]) = maxReadPerSV
       \/ Len(seqStore[svid]) = svs[svid].srSupport

\* line 164 without the test of the svt
NeedsMsaAnySvt(svid) == Len(seqStore[svid]) > 1

\* line 164
NeedsMsa(svid) ==
    ~translocationSvt(svs[svid].svt) /\ Len(seqStore[svid]) > 1

\* msa.h, from spec 6: msa(sequences) -> consensus string; the consensus the
\* model allows is any of the sequences
msa(seqs) == {seqs[k] : k \in 1..Len(seqs)}

\* split.h, from spec 6: on success alignConsensus mutates sv with precise
\* coordinates (here the start moves by d) and srAlignQuality
alignConsensus(sv, d) ==
    [sv EXCEPT !.svStart = @ + d, !.precise = TRUE, !.srAlignQuality = 1]

\* lines 168-170 without the reset of srSupport
MsaFailedKeepsSupport(sv) == [sv EXCEPT !.consensus = <<>>]

\* lines 168-170: the alignment failed
MsaFailed(sv) == [sv EXCEPT !.consensus = <<>>, !.srSupport = 0]

NumSVs == Cardinality(DOMAIN svs)

(***************************************************************************)
(* The reads of the files.  A file is sorted by position; what it holds    *)
(* is given by a shape: a reads at the start of the deletion, b reads at   *)
(* its end and, if n, reads of the other kinds around them.                *)
(***************************************************************************)
AsmRd(q, fl, ql, t, p, mt) ==
    [qname |-> q, flag |-> fl, qual |-> ql, tid |-> t, pos |-> p, mtid |-> mt,
     seq |-> <<1, 2>>]

\* a read away from every split-read position
OffRead == AsmRd("r1", {}, 2, 0, 0, 0)

\* a read below minMapQual at a split-read position
LowQualRead == AsmRd("r1", {}, 0, 0, 1, 0)

\* a supplementary alignment at a split-read position
SupplementaryRead == AsmRd("r1", {"SUPPLEMENTARY"}, 2, 0, 1, 0)

\* reads at the start and at the end of the deletion
StartRead == AsmRd("r1", {}, 2, 0, 1, 0)

EndRead == AsmRd("r1", {}, 2, 0, 3, 0)

\* a read at the end of the deletion whose mate is on reference 1
EndReadMateAway == AsmRd("r2", {}, 2, 0, 3, 1)

\* a read at a split-read position under another name
OtherRead == AsmRd("r1", {}, 2, 0, 2, 0)

\* the reads of the translocation, on reference 0 and on reference 1
TraRead0 == AsmRd("r2", {}, 2, 0, 2, 1)

TraRead1 == AsmRd("r2", {}, 2, 1, 1, 0)

RECURSIVE Rep(_, _)
Rep(x, n) == IF n = 0 THEN <<>> ELSE <<x>> \o Rep(x, n - 1)

IfSeq(b, s) == IF b THEN s ELSE <<>>

\* the reads of a file on reference ref, in the order of the file
FileReads(sh, ref) ==
    CASE ref = 0 ->
           IfSeq(sh.n, <<OffRead, LowQualRead, SupplementaryRead>>)
           \o Rep(StartRead, sh.a)
           \o IfSeq(sh.n, <<OtherRead, TraRead0>>)
           \o Rep(EndRead, sh.b)
           \o IfSeq(sh.n, <<EndReadMateAway>>)
      [] ref = 1 -> IfSeq(sh.n, <<TraRead1, TraRead1>>)
      [] OTHER -> <<>>

FileShapes == [a : {0, 1, 10, 21}, b : {0, 10}, n : BOOLEAN]

\* lines 125-127: the records the iterator of file f over interval iv of
\* reference ref delivers
IntervalReads(f, ref, iv) ==
    SelectSeq(FileReads(files[f + 1], ref),
              LAMBDA r : r.pos >= iv.lower /\ r.pos < iv.upper)

\* the records of the iterator the routine is reading
AsmStream == IntervalReads(file_c, asmRef, validRegions[asmRef][asmIv + 1])

\* the record sam_itr_next delivers next
AsmRec == AsmStream[asmK + 1]

(***************************************************************************)
(* The SV records and srStore as scanPEandSR leaves them: a deletion       *)
(* (SV 0, reference 0, 1..3) and, if tra, a translocation (SV 1, reference *)
(* 1 to reference 0), both from split-read clusters.  The hash of the      *)
(* model has two values, so the records of an SV share read ids.           *)
(***************************************************************************)
SVRecord(idv, svt, chr, s, chr2, e, sup) ==
    [id |-> idv, svt |-> svt, chr |-> chr, svStart |-> s, chr2 |-> chr2,
     svEnd |-> e, peSupport |-> 0, srSupport |-> sup, precise |-> TRUE,
     consensus |-> <<>>, srAlignQuality |-> 0]

DeletionSV(sup) == SVRecord(0, 2, 0, 1, 0, 3, sup)

TranslocationSV == SVRecord(1, DELLY_SVT_TRANS, 1, 1, 0, 2, 2)

AsmSR(chr, pos, chr2, pos2, id, svt, svid) ==
    [chr |-> chr, pos |-> pos, chr2 |-> chr2, pos2 |-> pos2, id |-> id,
     svt |-> svt, svid |-> svid]

\* the split-read records behind the SVs
AsmSRRecords(sup, tra) ==
    <<AsmSR(0, 1, 0, 3, 1, 2, 0)>>
    \o IfSeq(sup > 1, <<AsmSR(0, 1, 0, 3, 2, 2, 0)>>)
    \o IfSeq(tra, <<AsmSR(1, 1, 0, 2, 2, DELLY_SVT_TRANS, 1),
                    AsmSR(1, 1, 0, 2, 2, DELLY_SVT_TRANS, 1)>>)

RECURSIVE TrackAll(_, _)
\* lines 428-435 on a list of records
TrackAll(st, rs) ==
    IF rs = <<>> THEN st ELSE TrackAll(TrackWrite(st, Head(rs)), Tail(rs))

WholeRegion == <<[lower |-> 0, upper |-> 4]>>

SplitRegion == <<[lower |-> 0, upper |-> 2], [lower |-> 2, upper |-> 4]>>

\* the runs of SpecAsm: the regions and whether there is a translocation
AsmScenarios ==
    {[regions |-> [r \in Refs |-> WholeRegion], tra |-> TRUE],
     [regions |-> [r \in Refs |-> IF r = 0 THEN SplitRegion ELSE WholeRegion],
      tra |-> TRUE],
     [regions |-> [r \in Refs |-> IF r = 0 THEN WholeRegion ELSE <<>>],
      tra |-> TRUE],
     [regions |-> [r \in Refs |-> WholeRegion], tra |-> FALSE]}

\* lines 70-101: the state when the loop over the references starts
InitAsm ==
    /\ CigarIdle
    /\ OrchIdle /\ phase = "idle"
    /\ srBR = <<>> /\ trkSvt = 0 /\ trkI = 0
    /\ sampleLib = <<>> /\ pc = <<>> /\ refIndex = <<>>
    /\ vRIt = <<>> /\ matetra = <<>> /\ mateMap = <<>> /\ readBp = <<>>
    /\ lastAlignedPos = <<>> /\ lastAlignedPosReads = <<>> /\ pending = <<>>
    /\ bamRecord = <<>> /\ crit = {} /\ seen = <<>>
    /\ c = Config(1, 2, FALSE, {})
    /\ \E sc \in AsmScenarios, sup \in {1, 2, 25} :
         /\ validRegions = sc.regions
         /\ svs = [k \in 0..(IF sc.tra THEN 1 ELSE 0) |->
                     IF k = 0 THEN DeletionSV(sup) ELSE TranslocationSV]
         /\ srStore = TrackAll([r \in Refs |-> <<>>], AsmSRRecords(sup, sc.tra))
    /\ files \in [1..NumAsmFiles -> FileShapes]
    /\ seqStore = <<>>
    /\ svDone = <<>>
    /\ asmPc = "ref"
    /\ asmRef = 0
    /\ file_c = 0
    /\ asmIv = 0
    /\ asmK = 0
    /\ svidIt = 0
    /\ msaCalls = [k \in DOMAIN svs |-> 0]
    /\ alignCalls = [k \in DOMAIN svs |-> <<>>]

\* what assembleSplitReads never writes
asmFrame == <<c, cigarVars, trackVars, scanVars, orchVars, files>>

\* line 102: the loop over the references is over; lines 184-191
AsmRefLoopEnd ==
    /\ asmPc = "ref" /\ asmRef = NumRefs
    /\ asmPc' = "done"
    /\ UNCHANGED <<asmFrame, svs, seqStore, svDone, asmRef, file_c, asmIv,
                   asmK, svidIt, msaCalls, alignCalls>>

\* line 104: no valid region on this reference
AsmRefSkipInvalid ==
    /\ asmPc = "ref" /\ asmRef < NumRefs
    /\ validRegions[asmRef] = <<>>
    /\ asmRef' = asmRef + 1
    /\ UNCHANGED <<asmFrame, svs, seqStore, svDone, asmPc, file_c, asmIv,
                   asmK, svidIt, msaCalls, alignCalls>>

\* line 105: no split-read of an SV on this reference
AsmRefSkipNoSR ==
    /\ asmPc = "ref" /\ asmRef < NumRefs
    /\ validRegions[asmRef] # <<>>
    /\ DOMAIN srStore[asmRef] = {}
    /\ asmRef' = asmRef + 1
    /\ UNCHANGED <<asmFrame, svs, seqStore, svDone, asmPc, file_c, asmIv,
                   asmK, svidIt, msaCalls, alignCalls>>

\* lines 107-122: hits, a fresh seqStore and svDone, the first file
AsmRefEnter ==
    /\ asmPc = "ref" /\ asmRef < NumRefs
    /\ validRegions[asmRef] # <<>>
    /\ DOMAIN srStore[asmRef] # {}
    /\ seqStore' = [k \in DOMAIN svs |-> <<>>]
    /\ svDone' = [k \in DOMAIN svs |-> FALSE]
    /\ file_c' = 0
    /\ asmPc' = "file"
    /\ UNCHANGED <<asmFrame, svs, asmRef, asmIv, asmK, svidIt, msaCalls,
                   alignCalls>>

\* lines 122, 180-183: the files are done; seqStore and svDone go out of
\* scope, next reference
AsmFileEnd ==
    /\ asmPc = "file" /\ file_c = Len(files)
    /\ seqStore' = <<>>
    /\ svDone' = <<>>
    /\ asmRef' = asmRef + 1
    /\ asmPc' = "ref"
    /\ UNCHANGED <<asmFrame, svs, file_c, asmIv, asmK, svidIt, msaCalls,
                   alignCalls>>

\* lines 122-124: the next file, its first interval
AsmFileEnter ==
    /\ asmPc = "file" /\ file_c < Len(files)
    /\ asmIv' = 0
    /\ asmPc' = "iv"
    /\ UNCHANGED <<asmFrame, svs, seqStore, svDone, asmRef, file_c, asmK,
                   svidIt, msaCalls, alignCalls>>

\* line 124: the intervals of this reference are done, next file
AsmIvEnd ==
    /\ asmPc = "iv" /\ asmIv = Len(validRegions[asmRef])
    /\ file_c' = file_c + 1
    /\ asmPc' = "file"
    /\ UNCHANGED <<asmFrame, svs, seqStore, svDone, asmRef, asmIv, asmK,
                   svidIt, msaCalls, alignCalls>>

\* lines 125-126: a new iterator
AsmIvEnter ==
    /\ asmPc = "iv" /\ asmIv < Len(validRegions[asmRef])
    /\ asmK' = 0
    /\ asmPc' = "read"
    /\ UNCHANGED <<asmFrame, svs, seqStore, svDone, asmRef, file_c, asmIv,
                   svidIt, msaCalls, alignCalls>>

\* lines 127-129: a read the filters drop
AsmReadFiltered ==
    /\ asmPc = "read" /\ asmK < Len(AsmStream)
    /\ AsmFiltered(AsmRec, c)
    /\ asmK' = asmK + 1
    /\ UNCHANGED <<asmFrame, svs, seqStore, svDone, asmPc, asmRef, file_c,
                   asmIv, svidIt, msaCalls, alignCalls>>

\* line 130: no split-read at the position of the read
AsmReadNoHit ==
    /\ asmPc = "read" /\ asmK < Len(AsmStream)
    /\ ~AsmFiltered(AsmRec, c)
    /\ AsmRec.pos \notin Hits(asmRef)
    /\ asmK' = asmK + 1
    /\ UNCHANGED <<asmFrame, svs, seqStore, svDone, asmPc, asmRef, file_c,
                   asmIv, svidIt, msaCalls, alignCalls>>

\* lines 133-139: the position is hit, but not by this read
AsmReadNoSV ==
    /\ asmPc = "read" /\ asmK < Len(AsmStream)
    /\ ~AsmFiltered(AsmRec, c)
    /\ AsmRec.pos \in Hits(asmRef)
    /\ ~HasSV(AsmRec, asmRef)
    /\ asmK' = asmK + 1
    /\ UNCHANGED <<asmFrame, svs, seqStore, svDone, asmPc, asmRef, file_c,
                   asmIv, svidIt, msaCalls, alignCalls>>

\* lines 133-155: the sequence of the read is decoded, adjusted and stored
AsmReadPush ==
    /\ asmPc = "read" /\ asmK < Len(AsmStream)
    /\ ~AsmFiltered(AsmRec, c)
    /\ AsmRec.pos \in Hits(asmRef)
    /\ HasSV(AsmRec, asmRef)
    /\ LET svid == srStore[asmRef][AsmKey(AsmRec)]
           sequence == adjustOrientation(DecodeSeq(AsmRec),
                                         bpPoint(AsmRec, asmRef, svs[svid]),
                                         svs[svid].svt)
       IN  /\ PushAllowed(svDone[svid], Len(seqStore[svid]))
           /\ seqStore' = [seqStore EXCEPT ![svid] = Append(@, sequence)]
    /\ asmK' = asmK + 1
    /\ UNCHANGED <<asmFrame, svs, svDone, asmPc, asmRef, file_c, asmIv,
                   svidIt, msaCalls, alignCalls>>

\* lines 133-155: the SV is done or has maxReadPerSV sequences; the
\* sequence is dropped
AsmReadFull ==
    /\ asmPc = "read" /\ asmK < Len(AsmStream)
    /\ ~AsmFiltered(AsmRec, c)
    /\ AsmRec.pos \in Hits(asmRef)
    /\ HasSV(AsmRec, asmRef)
    /\ LET svid == srStore[asmRef][AsmKey(AsmRec)]
       IN  ~PushAllowed(svDone[svid], Len(seqStore[svid]))
    /\ asmK' = asmK + 1
    /\ UNCHANGED <<asmFrame, svs, seqStore, svDone, asmPc, asmRef, file_c,
                   asmIv, svidIt, msaCalls, alignCalls>>

\* line 127: sam_itr_next < 0, the interval is exhausted; line 161
AsmStreamEnd ==
    /\ asmPc = "read" /\ asmK = Len(AsmStream)
    /\ svidIt' = 0
    /\ asmPc' = "check"
    /\ UNCHANGED <<asmFrame, svs, seqStore, svDone, asmRef, file_c, asmIv,
                   asmK, msaCalls, alignCalls>>

\* line 162: the SV is done already or its sequences are not all there
AsmCheckSkip ==
    /\ asmPc = "check" /\ svidIt < NumSVs
    /\ ~Complete(svidIt)
    /\ svidIt' = svidIt + 1
    /\ UNCHANGED <<asmFrame, svs, seqStore, svDone, asmPc, asmRef, file_c,
                   asmIv, asmK, msaCalls, alignCalls>>

\* lines 162-176: a translocation or a single sequence: no consensus
AsmCompleteNoMsa ==
    /\ asmPc = "check" /\ svidIt < NumSVs
    /\ Complete(svidIt)
    /\ ~NeedsMsa(svidIt)
    /\ seqStore' = [seqStore EXCEPT ![svidIt] = <<>>]
    /\ svDone' = [svDone EXCEPT ![svidIt] = TRUE]
    /\ svidIt' = svidIt + 1
    /\ UNCHANGED <<asmFrame, svs, asmPc, asmRef, file_c, asmIv, asmK,
                   msaCalls, alignCalls>>

\* lines 162-176: msa, then alignConsensus succeeds
AsmCompleteAligned ==
    /\ asmPc = "check" /\ svidIt < NumSVs
    /\ Complete(svidIt)
    /\ NeedsMsa(svidIt)
    /\ \E cons \in msa(seqStore[svidIt]), d \in {0, 1} :
         svs' = [svs EXCEPT ![svidIt] =
                   alignConsensus([@ EXCEPT !.consensus = cons], d)]
    /\ msaCalls' = [msaCalls EXCEPT ![svidIt] = @ + 1]
    /\ alignCalls' = [alignCalls EXCEPT ![svidIt] = Append(@, TRUE)]
    /\ seqStore' = [seqStore EXCEPT ![svidIt] = <<>>]
    /\ svDone' = [svDone EXCEPT ![svidIt] = TRUE]
    /\ svidIt' = svidIt + 1
    /\ UNCHANGED <<asmFrame, asmPc, asmRef, file_c, asmIv, asmK>>

\* lines 162-176: msa, then alignConsensus fails
AsmCompleteFailed ==
    /\ asmPc = "check" /\ svidIt < NumSVs
    /\ Complete(svidIt)
    /\ NeedsMsa(svidIt)
    /\ \E cons \in msa(seqStore[svidIt]) :
         svs' = [svs EXCEPT ![svidIt] = MsaFailed([@ EXCEPT !.consensus = cons])]
    /\ msaCalls' = [msaCalls EXCEPT ![svidIt] = @ + 1]
    /\ alignCalls' = [alignCalls EXCEPT ![svidIt] = Append(@, FALSE)]
    /\ seqStore' = [seqStore EXCEPT ![svidIt] = <<>>]
    /\ svDone' = [svDone EXCEPT ![svidIt] = TRUE]
    /\ svidIt' = svidIt + 1
    /\ UNCHANGED <<asmFrame, asmPc, asmRef, file_c, asmIv, asmK>>

\* lines 161, 179: the loop over the SVs is over, next interval
AsmCheckEnd ==
    /\ asmPc = "check" /\ svidIt = NumSVs
    /\ asmIv' = asmIv + 1
    /\ asmPc' = "iv"
    /\ UNCHANGED <<asmFrame, svs, seqStore, svDone, asmRef, file_c, asmK,
                   svidIt, msaCalls, alignCalls>>

NextAsm ==
    \/ AsmRefLoopEnd
    \/ AsmRefSkipInvalid
    \/ AsmRefSkipNoSR
    \/ AsmRefEnter
    \/ AsmFileEnd
    \/ AsmFileEnter
    \/ AsmIvEnd
    \/ AsmIvEnter
    \/ AsmReadFiltered
    \/ AsmReadNoHit
    \/ AsmReadNoSV
    \/ AsmReadPush
    \/ AsmReadFull
    \/ AsmStreamEnd
    \/ AsmCheckSkip
    \/ AsmCompleteNoMsa
    \/ AsmCompleteAligned
    \/ AsmCompleteFailed
    \/ AsmCheckEnd

\* assembleSplitReads on NumAsmFiles files
SpecAsm == InitAsm /\ [][NextAsm]_vars

(***************************************************************************)
(* Claims on the assembly (SpecAsm).                                       *)
(***************************************************************************)

\* the read resolves to SV svid on the reference the routine is at
MatchesSV(r, svid) ==
    /\ ~AsmFiltered(r, c)
    /\ HasSV(r, asmRef)
    /\ srStore[asmRef][AsmKey(r)] = svid

\* C5: in every reachable state, no SV holds more than maxReadPerSV (20)
\* sequences in seqStore, whatever the files and intervals deliver.
C5_SeqStoreCapped ==
    \A svid \in DOMAIN seqStore : Len(seqStore[svid]) <= maxReadPerSV

\* C5, its case: the iterator has delivered more than maxReadPerSV reads of
\* an SV that is not done, and the SV holds maxReadPerSV sequences
C5_Witness ==
    /\ asmPc = "read"
    /\ \E svid \in DOMAIN seqStore :
         /\ ~svDone[svid]
         /\ Len(seqStore[svid]) = maxReadPerSV
         /\ Cardinality({k \in 1..asmK : MatchesSV(AsmStream[k], svid)})
              > maxReadPerSV

\* C8: after assembleSplitReads has finished, every SV record with precise
\* set has srSupport >= 1 and a non-empty consensus.
C8_PreciseHasConsensus ==
    asmPc = "done" =>
        \A svid \in DOMAIN svs :
            svs[svid].precise =>
                svs[svid].srSupport >= 1 /\ svs[svid].consensus # <<>>

\* SV svid has an entry in srStore for the reference the routine is at
HasEntries(svid) ==
    \E k \in DOMAIN srStore[asmRef] : srStore[asmRef][k] = svid

\* the pass over the reference is about to end (lines 180-183)
PassEnds == asmPc = "file" /\ file_c = Len(files)

\* C11: when the pass over a reference ends, every SV with entries on that
\* reference whose gathered count reached maxReadPerSV, or reached or passed
\* its srSupport, has svDone set (svDone is never reset within a pass, so
\* this is "eventually done before the pass ends").
C11_GatheredImpliesDone ==
    PassEnds =>
        \A svid \in DOMAIN seqStore :
            (/\ HasEntries(svid)
             /\ \/ Len(seqStore[svid]) = maxReadPerSV
                \/ Len(seqStore[svid]) >= svs[svid].srSupport)
            => svDone[svid]

\* alignConsensus has just returned false for SV svid
AlignFailsFor(svid) ==
    /\ Len(alignCalls'[svid]) = Len(alignCalls[svid]) + 1
    /\ ~alignCalls'[svid][Len(alignCalls'[svid])]

\* C12: in the step in which the alignment of an SV fails, that SV's
\* consensus becomes empty and its srSupport 0, every other field of it and
\* every other SV record stay as they were, and the loop over the SVs goes
\* on with the next SV.
C12_FailureClearsOnlyThatSV ==
    [][\A svid \in DOMAIN svs :
         AlignFailsFor(svid) =>
            /\ svs'[svid].consensus = <<>>
            /\ svs'[svid].srSupport = 0
            /\ svs'[svid] = [svs[svid] EXCEPT !.consensus = <<>>, !.srSupport = 0]
            /\ \A o \in DOMAIN svs \ {svid} : svs'[o] = svs[o]
            /\ asmPc' = "check"
            /\ svidIt' = svid + 1]_vars

\* C12, its case: the alignment of SV 0 failed, SV 0 had support before, and
\* the loop went on to complete SV 1
C12_Witness ==
    /\ asmPc = "check" /\ svidIt = 2
    /\ alignCalls[0] = <<FALSE>>
    /\ svs[0].srSupport = 0 /\ svs[0].consensus = <<>>
    /\ svDone[0] /\ svDone[1]
    /\ seqStore[1] = <<>>

\* the completion test of line 162 is passing for SV svid
Completing(svid) == asmPc = "check" /\ svidIt = svid /\ Complete(svid)

\* C14: for an SV whose svt is a translocation, msa and alignConsensus are
\* never called and no step changes its record (consensus, srSupport and
\* breakpoint coordinates included); when its completion test passes, it is
\* still marked done and its gathered sequences are discarded.
C14_TranslocationUntouched ==
    /\ [](\A svid \in DOMAIN svs :
            translocationSvt(svs[svid].svt) =>
                msaCalls[svid] = 0 /\ alignCalls[svid] = <<>>)
    /\ [][\A svid \in DOMAIN svs :
            translocationSvt(svs[svid].svt) =>
                /\ svs'[svid] = svs[svid]
                /\ Completing(svid) =>
                      /\ svDone'[svid]
                      /\ seqStore'[svid] = <<>>
                      /\ svidIt' = svid + 1]_vars

\* C14, its case: the translocation SV had gathered its two sequences, was
\* marked done and its sequences dropped, without a call of msa or
\* alignConsensus and with its record as it was
C14_Witness ==
    /\ asmPc = "check" /\ svidIt = 2
    /\ 1 \in DOMAIN svs /\ translocationSvt(svs[1].svt)
    /\ svDone[1] /\ seqStore[1] = <<>>
    /\ msaCalls[1] = 0 /\ alignCalls[1] = <<>>
    /\ svs[1] = TranslocationSV
    /\ Cardinality({k \in 1..asmK : MatchesSV(AsmStream[k], 1)}) >= 1

\* the breakpoint flag by the kind of the SV: for a translocation SV the read
\* lies on the SV's secondary reference, otherwise it lies beyond the start
FlagBySV(r, sv) ==
    IF translocationSvt(sv.svt) THEN r.tid = sv.chr2 ELSE r.pos > sv.svStart

\* C15: the sequence stored for a read matched to an SV is the read's
\* sequence, reverse-complemented exactly when, for an intra-chromosomal
\* SV, the read's position lies beyond the SV's start (wherever its mate
\* maps) and, for a translocation SV, the read lies on the SV's secondary
\* reference.
C15_FlagBySVKind ==
    [][\A svid \in DOMAIN seqStore :
         Len(seqStore'[svid]) = Len(seqStore[svid]) + 1 =>
            seqStore'[svid][Len(seqStore'[svid])]
              = adjustOrientation(DecodeSeq(AsmRec),
                                  FlagBySV(AsmRec, svs[svid]),
                                  svs[svid].svt)]_vars

\* the references on which SV svid has srStore entries
RefsOf(svid) ==
    {r \in Refs : \E k \in DOMAIN srStore[r] : srStore[r][k] = svid}

\* C21: within the pass over a reference, once svDone[svid] is true it stays
\* true and no sequence is added to seqStore[svid]; and msa and
\* alignConsensus are called at most once for an SV whose srStore entries
\* all lie on one reference.
C21_DoneIsFinal ==
    /\ [][\A svid \in (DOMAIN seqStore) \cap (DOMAIN seqStore') :
            svDone[svid] =>
                /\ svDone'[svid]
                /\ seqStore'[svid] = seqStore[svid]
                /\ seqStore'[svid] = <<>>]_vars
    /\ [](\A svid \in DOMAIN svs :
            Cardinality(RefsOf(svid)) <= 1 =>
                msaCalls[svid] <= 1 /\ Len(alignCalls[svid]) <= 1)

\* C21, its case: SV 0, with entries on reference 0 alone, is done after
\* one call of msa and alignConsensus, and the iterator of a later interval
\* or file has delivered another read of it, which was not stored
C21_Witness ==
    /\ asmPc = "read"
    /\ RefsOf(0) = {0} /\ asmRef = 0
    /\ svDone[0] /\ seqStore[0] = <<>>
    /\ msaCalls[0] = 1 /\ Len(alignCalls[0]) = 1
    /\ Cardinality({k \in 1..asmK : MatchesSV(AsmStream[k], 0)}) >= 1

(***************************************************************************)
(* scanPEandSR after the parallel loop (lines 390-436): split-read         *)
(* clustering, paired-end clustering, then the rebuild of srStore.         *)
(***************************************************************************)

\* the parallel loop as if it had a nowait clause
ScanJoinedNoWait == TRUE

\* lines 228-229, 389: omp parallel for ends with a barrier; the thread that
\* goes on finds every iteration finished
ScanJoined == \A w \in Workers : pc[w] = "done"

\* the place of element k of sq in the sorted vector (equal elements keep
\* their order); less[j][k] tells whether element j is ordered before
\* element k
SortRank(sq, k, less) ==
    1 + Cardinality({j \in 1..Len(sq) :
                        \/ less[j][k]
                        \/ ~less[k][j] /\ j < k})

\* lines 402, 420: std::sort of a vector
SortBy(sq, less) ==
    [n \in 1..Len(sq) |-> sq[CHOOSE k \in 1..Len(sq) : SortRank(sq, k, less) = n]]

\* junction.h, SortSRBamRecord, from spec 4.F: by (chr, pos), ties by read id
SortSRBamRecord(a, b) ==
    \/ a.chr < b.chr
    \/ a.chr = b.chr /\ a.pos < b.pos
    \/ a.chr = b.chr /\ a.pos = b.pos /\ a.id < b.id

\* the two ends of a pair-evidence record, the lower position first
PEPoint(b) ==
    [chr |-> b.rec.tid, pos |-> Min(b.rec.pos, b.rec.mpos),
     chr2 |-> b.rec.mtid, pos2 |-> Max(b.rec.pos, b.rec.mpos)]

\* the two ends of a split-read record
SRPoint(r) == [chr |-> r.chr, pos |-> r.pos, chr2 |-> r.chr2, pos2 |-> r.pos2]

\* util.h, SortBamRecords, from spec 4.F: by (chr, pos)
SortBamRecords(a, b) ==
    \/ PEPoint(a).chr < PEPoint(b).chr
    \/ PEPoint(a).chr = PEPoint(b).chr /\ PEPoint(a).pos < PEPoint(b).pos

\* util.h, getVariability, from spec 4.F: derived from the per-sample
\* insert-size variabilities, here the largest maxNormalISize - median
getVariability(lib) ==
    LET V == {lib[w].maxNormalISize - lib[w].median : w \in DOMAIN lib}
    IN  CHOOSE v \in V : \A u \in V : u <= v

\* cluster.h, from spec 4.F: the minimum support of a component
MinSupport == 2

\* cluster.h, from spec 4.F step 2: the positions agree within D
Agree(p, q, D) ==
    /\ p.chr = q.chr /\ p.chr2 = q.chr2
    /\ Abs(p.pos - q.pos) <= D /\ Abs(p.pos2 - q.pos2) <= D

RECURSIVE Closure(_, _, _)
Closure(pts, S, D) ==
    LET T == S \cup {j \in 1..Len(pts) : \E k \in S : Agree(pts[k], pts[j], D)}
    IN  IF T = S THEN S ELSE Closure(pts, T, D)

\* cluster.h, from spec 4.F step 3: the connected component of record k
Component(pts, k, D) == Closure(pts, {k}, D)

SetMin(S) == CHOOSE x \in S : \A y \in S : x <= y

SetMax(S) == CHOOSE x \in S : \A y \in S : y <= x

\* the first records of the components that become SVs, in the order of
\* the sort
Leaders(pts, D) ==
    {k \in 1..Len(pts) :
        /\ k = SetMin(Component(pts, k, D))
        /\ Cardinality(Component(pts, k, D)) >= MinSupport}

\* cluster.h, from spec 4.F step 5: the id of the SV of record k, -1 if its
\* component is no SV; base is the size of the SV vector before the call
SvidOf(pts, k, D, base) ==
    LET ld == SetMin(Component(pts, k, D))
    IN  IF ld \in Leaders(pts, D)
        THEN base + Cardinality({j \in Leaders(pts, D) : j < ld})
        ELSE -1

\* cluster.h, from spec 4.F step 4: the SV of the component of leader ld
ClusterSV(pts, ld, D, svt, idv, pe) ==
    LET C == Component(pts, ld, D)
        sv == SVRecord(idv, svt, pts[ld].chr, SetMin({pts[k].pos : k \in C}),
                       pts[ld].chr2, SetMax({pts[k].pos2 : k \in C}),
                       Cardinality(C))
    IN  IF pe
        THEN [sv EXCEPT !.peSupport = Cardinality(C), !.srSupport = 0,
                        !.precise = FALSE]
        ELSE sv

\* cluster.h: the SV vector after cluster(c, records, vec, D, svt)
Clustered(vec, pts, D, svt, pe) ==
    LET base == Cardinality(DOMAIN vec)
        L == Leaders(pts, D)
    IN  [n \in 0..(base + Cardinality(L) - 1) |->
           IF n < base THEN vec[n]
           ELSE ClusterSV(pts,
                          CHOOSE ld \in L : Cardinality({j \in L : j < ld}) = n - base,
                          D, svt, n, pe)]

\* lines 390-397: the parallel loop is over, split-read clustering starts
ScanJoin ==
    /\ phase = "scan"
    /\ ScanJoined
    /\ phase' = "sr"
    /\ clSvt' = 0
    /\ UNCHANGED <<c, asmVars, cigarVars, trackVars, scanVars, srSVs, clusterLog>>

\* line 399: no split-read record of this svt
ClusterSRSkip ==
    /\ phase = "sr" /\ clSvt < 2 * DELLY_SVT_TRANS
    /\ srBR[clSvt] = <<>>
    /\ clSvt' = clSvt + 1
    /\ UNCHANGED <<c, asmVars, cigarVars, trackVars, scanVars, phase, srSVs,
                   clusterLog>>

\* lines 401-405: srBR[svt] is sorted and clustered into srSVs
ClusterSR ==
    /\ phase = "sr" /\ clSvt < 2 * DELLY_SVT_TRANS
    /\ srBR[clSvt] # <<>>
    /\ LET sq == srBR[clSvt]
           sorted == SortBy(sq, [a \in DOMAIN sq |->
                                   [b \in DOMAIN sq |-> SortSRBamRecord(sq[a], sq[b])]])
           pts == [k \in 1..Len(sorted) |-> SRPoint(sorted[k])]
           base == Cardinality(DOMAIN srSVs)
       IN  /\ srBR' = [srBR EXCEPT ![clSvt] =
                         [k \in 1..Len(sorted) |->
                            [sorted[k] EXCEPT
                               !.svid = SvidOf(pts, k, c.maxReadSep, base)]]]
           /\ srSVs' = Clustered(srSVs, pts, c.maxReadSep, clSvt, FALSE)
    /\ clusterLog' = Append(clusterLog, <<"sr", clSvt>>)
    /\ clSvt' = clSvt + 1
    /\ UNCHANGED <<c, asmVars, cigarVars, scanVars, srStore, trkSvt, trkI, phase>>

\* lines 397, 408-414: split-read clustering is over, paired-end clustering
\* starts
ClusterSREnd ==
    /\ phase = "sr" /\ clSvt = 2 * DELLY_SVT_TRANS
    /\ phase' = "pe"
    /\ clSvt' = 0
    /\ UNCHANGED <<c, asmVars, cigarVars, trackVars, scanVars, srSVs, clusterLog>>

\* line 416: no pair-evidence record of this svt
ClusterPESkip ==
    /\ phase = "pe" /\ clSvt < 2 * DELLY_SVT_TRANS
    /\ bamRecord[clSvt] = <<>>
    /\ clSvt' = clSvt + 1
    /\ UNCHANGED <<c, asmVars, cigarVars, trackVars, scanVars, phase, srSVs,
                   clusterLog>>

\* lines 418-423: bamRecord[svt] is sorted and clustered into svs
ClusterPE ==
    /\ phase = "pe" /\ clSvt < 2 * DELLY_SVT_TRANS
    /\ bamRecord[clSvt] # <<>>
    /\ LET sq == bamRecord[clSvt]
           sorted == SortBy(sq, [a \in DOMAIN sq |->
                                   [b \in DOMAIN sq |-> SortBamRecords(sq[a], sq[b])]])
           pts == [k \in 1..Len(sorted) |-> PEPoint(sorted[k])]
       IN  /\ bamRecord' = [bamRecord EXCEPT ![clSvt] = sorted]
           /\ svs' = Clustered(svs, pts, getVariability(sampleLib), clSvt, TRUE)
    /\ clusterLog' = Append(clusterLog, <<"pe", clSvt>>)
    /\ clSvt' = clSvt + 1
    /\ UNCHANGED <<c, cigarVars, trackVars, sampleLib, validRegions, pc,
                   refIndex, vRIt, matetra, mateMap, readBp, lastAlignedPos,
                   lastAlignedPosReads, pending, crit, seen, files, seqStore,
                   svDone, asmPc, asmRef, file_c, asmIv, asmK, svidIt,
                   msaCalls, alignCalls, phase, srSVs>>

\* lines 414, 427-428: paired-end clustering is over, the rebuild of srStore
\* starts
ClusterPEEnd ==
    /\ phase = "pe" /\ clSvt = 2 * DELLY_SVT_TRANS
    /\ phase' = "track"
    /\ trkSvt' = 0
    /\ trkI' = 0
    /\ UNCHANGED <<c, asmVars, cigarVars, scanVars, srBR, srStore, clSvt, srSVs,
                   clusterLog>>

\* lines 428, 438-444: the rebuild is over, clean-up
TrackEnd ==
    /\ phase = "track" /\ TrackDone
    /\ phase' = "end"
    /\ UNCHANGED <<c, asmVars, cigarVars, trackVars, scanVars, clSvt, srSVs,
                   clusterLog>>

NextPhases ==
    \/ NextPar
    \/ ScanJoin
    \/ ClusterSRSkip
    \/ ClusterSR
    \/ ClusterSREnd
    \/ ClusterPESkip
    \/ ClusterPE
    \/ ClusterPEEnd
    \/ TrackAssigned
    \/ TrackUnassigned
    \/ TrackNextSvt
    \/ TrackEnd

\* scanPEandSR as a whole on NumFiles samples
SpecPhases == InitPar /\ [][NextPhases]_vars

(***************************************************************************)
(* Claims on the phases of scanPEandSR (SpecPhases).                       *)
(***************************************************************************)

\* every worker has left the parallel loop
WorkersDone == \A w \in Workers : pc[w] = "done"

\* cluster was called for the records of kind and svt
Logged(kind, svt) ==
    \E k \in 1..Len(clusterLog) : clusterLog[k] = <<kind, svt>>

\* the calls of cluster: split-read before paired-end, each in increasing svt
LogOrdered ==
    \A k \in 1..Len(clusterLog) : \A l \in 1..Len(clusterLog) :
        k < l =>
            \/ clusterLog[k][1] = "sr" /\ clusterLog[l][1] = "pe"
            \/ clusterLog[k][1] = clusterLog[l][1] /\ clusterLog[k][2] < clusterLog[l][2]

SRClusteringComplete == \A svt \in Svts : srBR[svt] # <<>> => Logged("sr", svt)

PEClusteringComplete == \A svt \in Svts : bamRecord[svt] # <<>> => Logged("pe", svt)

\* C13: no part after the parallel loop runs while a worker is still
\* scanning or selecting; cluster is called for the split-read records in
\* increasing svt, then for the pair evidence in increasing svt, the first
\* paired-end call only after every split-read call; srStore is written only
\* after both clusterings are complete.
C13_PhaseOrdering ==
    /\ [](/\ ((phase # "scan" \/ clusterLog # <<>>) => WorkersDone)
          /\ LogOrdered)
    /\ [][/\ ((clusterLog' # clusterLog /\ clusterLog'[Len(clusterLog')][1] = "pe")
               => SRClusteringComplete)
           /\ (srStore' # srStore
               => (WorkersDone /\ SRClusteringComplete /\ PEClusteringComplete))]_vars

\* C13, its case: the run is over, both kinds of records were clustered and
\* srStore was written
C13_Witness ==
    /\ phase = "end"
    /\ \E svt \in Svts : Logged("sr", svt)
    /\ \E svt \in Svts : Logged("pe", svt)
    /\ \E r \in Refs : DOMAIN srStore[r] # {}

(***************************************************************************)
(* Claims on the mate maps of several samples (SpecPar).                   *)
(***************************************************************************)

\* worker w is inside the loop over the intervals of a reference
InPartition(w) == pc[w] \in {"iv", "read", "push", "inpush"}

\* C16: the intra-chromosomal mate map of a worker is empty when a
\* reference partition starts and holds only entries stored in the partition
\* the worker is in; the inter-chromosomal mate map of a worker never loses
\* an entry, changes only in a step of that worker, and a translocation pair
\* is emitted by a worker only from an entry of its own map.
C16_MateMapScopes ==
    /\ [](\A w \in Workers :
            /\ (pc[w] = "iv" /\ vRIt[w] = 0) => mateMap[w] = <<>>
            /\ InPartition(w) =>
                   \A hv \in DOMAIN mateMap[w] : hv[2] = refIndex[w])
    /\ [][\A w \in Workers :
            /\ DOMAIN matetra[w] \subseteq DOMAIN matetra'[w]
            /\ (matetra'[w] # matetra[w]) => (seen'[w] # seen[w])
            /\ (pending'[w] # pending[w] /\ pending'[w] # <<>>
                   /\ translocationSvt(pending'[w].svt))
                => StoredQual(matetra[w], hash_pair_mate(pending'[w].rec)) # 0]_vars

\* C16, its case: a worker starts the partition of reference 1 with an
\* empty intra-chromosomal map after it stored a first mate on reference 0,
\* its inter-chromosomal map still holds the entry stored on reference 0,
\* and the map of another worker holds none
C16_Witness ==
    \E w \in Workers : \E v \in Workers \ {w} :
        /\ refIndex[w] = 1 /\ pc[w] = "iv" /\ vRIt[w] = 0
        /\ mateMap[w] = <<>>
        /\ \E k \in 1..Len(seen[w]) :
               /\ seen[w][k].ref = 0
               /\ seen[w][k].rec.tid = seen[w][k].rec.mtid
               /\ ~Filtered(seen[w][k].rec, c)
               /\ ~NoPairedEnd(seen[w][k].rec, c, sampleLib[w], validRegions)
               /\ firstPairObs(seen[w][k].rec, {})
        /\ \E hv \in DOMAIN matetra[w] : hv[2] = 0
        /\ matetra[v] = <<>>

(***************************************************************************)
(* More claims on the scan of one sample (SpecScan).                       *)
(***************************************************************************)

\* the read the step delivers to worker w
NewRead(w) == seen'[w][Len(seen'[w])].rec

\* r is a deletion-oriented read of an intra-chromosomal pair that passes
\* every test before the classification (lines 269-319)
DeletionOriented(r, w) ==
    /\ ~Filtered(r, c)
    /\ "PAIRED" \in r.flag
    /\ ~SingleEnd(sampleLib[w])
    /\ r.flag \cap {"SECONDARY", "SUPPLEMENTARY", "MUNMAP"} = {}
    /\ r.mtid = r.tid
    /\ validRegions[r.mtid] # <<>>
    /\ getSVType(r) = 2

C18_ClipJunction ==
    [][(InLoop /\ CurOp.op \in {"S", "H"} /\ CurOp.len > c.minClip) =>
         /\ Len(junctions') = Len(junctions) + 1
         /\ SubSeq(junctions', 1, Len(junctions)) = junctions
         /\ junctions'[Len(junctions')].refpos = rp
         /\ (sp = 0 => /\ junctions'[Len(junctions')].seqpos = CurOp.len
                       /\ junctions'[Len(junctions')].scleft)
         /\ (sp # 0 => /\ junctions'[Len(junctions')].seqpos = sp
                       /\ ~junctions'[Len(junctions')].scleft)
         /\ sp' = sp + CurOp.len
         /\ rp' = rp]_vars

\* C18, its case: a read with a leading and a trailing clip, both longer
\* than minClip, has been parsed
C18_Witness ==
    /\ i = 3 /\ Len(rec.cigar) = 3
    /\ rec.cigar[1].op = "S" /\ rec.cigar[1].len > c.minClip
    /\ rec.cigar[2].op = "M"
    /\ rec.cigar[3].op = "H" /\ rec.cigar[3].len > c.minClip
    /\ Len(junctions) = 2
    /\ junctions[1].scleft /\ junctions[1].seqpos = rec.cigar[1].len
    /\ ~junctions[2].scleft
    /\ junctions[2].seqpos = rec.cigar[1].len + rec.cigar[2].len

(***************************************************************************)
(* More claims on the scan of one sample (SpecScan).                       *)
(***************************************************************************)
\* the operations the loop of lines 280-307 names
KnownOps == {"M", "EQ", "X", "D", "I", "S", "H", "N"}

HasUnknownOp(r) == \E k \in 1..Len(r.cigar) : r.cigar[k].op \notin KnownOps

IsKnownOp(e) == e.op \in KnownOps

\* r without the operations the loop does not know
StripUnknown(r) == [r EXCEPT !.cigar = SelectSeq(@, IsKnownOp)]

\* r with the first k operations of its CIGAR
CigarPrefix(r, k) == [r EXCEPT !.cigar = SubSeq(@, 1, k)]

\* the loop's state when worker w starts on the CIGAR of r
LoopStart(w, r) ==
    [rp |-> r.pos, sp |-> 0,
     bp |-> IF SeedOf(r) \in DOMAIN readBp[w] THEN readBp[w][SeedOf(r)] ELSE <<>>]

\* C19: an unknown alignment operation leaves the reference pointer, the
\* sequence pointer and the read's junctions as they are; the operations
\* after it are processed as if it were absent (the pointers and junctions
\* after the loop are those of the CIGAR without it); and the read goes on
\* into the paired-end part: a first mate is stored, a second mate whose
\* first mate is stored becomes a pair.
C19_UnknownOpIgnored ==
    [][\A w \in Workers :
         (/\ Len(seen'[w]) = Len(seen[w]) + 1
          /\ HasUnknownOp(NewRead(w))
          /\ ~Filtered(NewRead(w), c)) =>
           LET r == NewRead(w)
               plain == StripUnknown(r)
               svt == isizeMappingPos(r, overallMaxISize(sampleLib[w]))
               lapr == PosReadsAt(r, lastAlignedPos[w], lastAlignedPosReads[w])
               hv == hash_pair_mate(r)
               mp == IF translocationSvt(svt) THEN matetra[w] ELSE mateMap[w]
               mpNew == IF translocationSvt(svt) THEN matetra'[w] ELSE mateMap'[w]
           IN  /\ \A k \in 1..Len(r.cigar) :
                     r.cigar[k].op \notin KnownOps =>
                       ParseFrom(LoopStart(w, r), CigarPrefix(r, k), c, 1)
                         = ParseFrom(LoopStart(w, r), CigarPrefix(r, k - 1), c, 1)
               /\ ParseFrom(LoopStart(w, r), r, c, 1)
                     = ParseFrom(LoopStart(w, r), plain, c, 1)
               /\ readBp'[w] = ParseCigar(readBp[w], plain, c)
               /\ ~NoPairedEnd(r, c, sampleLib[w], validRegions) =>
                     IF firstPairObs(r, lapr)
                     THEN mpNew = StoreMate(mp, plain)
                     ELSE IF MateDiscarded(mp, hv)
                     THEN mpNew = mp /\ pending'[w] = <<>>
                     ELSE /\ pending'[w] # <<>>
                          /\ pending'[w].rec = r
                          /\ pending'[w].pairQuality = PairQuality(mp[hv], r)
                          /\ pc'[w] = "push"]_vars

\* C19, its case: both mates of a pair carry an unknown operation before a
\* qualifying clip; each left its junction of a leading clip, and the pair
\* is in bamRecord
C19_Witness ==
    /\ Len(bamRecord[2]) = 1
    /\ HasUnknownOp(bamRecord[2][1].rec)
    /\ \E k \in 1..Len(seen[0]) :
          /\ HasUnknownOp(seen[0][k].rec)
          /\ hash_pair(seen[0][k].rec) = hash_pair_mate(bamRecord[2][1].rec)
    /\ SeedOf(bamRecord[2][1].rec) \in DOMAIN readBp[0]
    /\ LET js == readBp[0][SeedOf(bamRecord[2][1].rec)]
       IN  /\ Len(js) = 2
           /\ \A k \in 1..2 : js[k].scleft /\ js[k].seqpos = 3
           /\ {js[k].refpos : k \in 1..2} = {1, 2}

\* the first mates of the stream of w under hash hv that were stored (the
\* reference-then-position order makes them first mates)
FirstMates(w, hv) ==
    {k \in 1..Len(seen[w]) :
        LET r == seen[w][k].rec
        IN  /\ hash_pair(r) = hv
            /\ ~Filtered(r, c)
            /\ ~NoPairedEnd(r, c, sampleLib[w], validRegions)
            /\ (IF r.tid = r.mtid THEN r.pos < r.mpos ELSE r.tid < r.mtid)}

\* the BamAlignRecords of the pair whose first mate has hash hv, sample w
PairRecords(w, hv) == {x \in AllBam : x.file = w /\ hash_pair_mate(x.rec) = hv}

\* C20: once a first mate has passed the filters and is stored and its
\* second mate has passed the filters later in the same reference partition
\* (or, for mates on two references, the same sample), exactly one
\* BamAlignRecord stands for the pair, whatever the admissible mapping
\* quality of the first mate (0 included when minMapQual is 0).
C20_OnePairRecord ==
    \A w \in Workers :
        pc[w] \notin {"push", "inpush"} =>
            \A k \in 1..Len(seen[w]) : \A l \in 1..Len(seen[w]) :
                (/\ k < l
                 /\ k \in FirstMates(w, hash_pair(seen[w][k].rec))
                 /\ l \in SecondMates(w, hash_pair(seen[w][k].rec)))
                => Cardinality(PairRecords(w, hash_pair(seen[w][k].rec))) = 1

=============================================================================
